---- MODULE Spec2Model ----
(***************************************************************************)
(* Weather service: cache-aside weather lookup, bounded query history,     *)
(* and per-IP rate limiting in front of the weather endpoint.              *)
(*                                                                         *)
(* Text is a sequence of one-character strings.  A Python dict is a record *)
(* from field names to typed values [t |-> type, v |-> literal]; a JSON    *)
(* document is the sequence of its members <<name, json type, literal>>.   *)
(* Time is the pair (now, usec): now counts seconds and drives every TTL,  *)
(* usec orders the timestamps read within one second.                      *)
(***************************************************************************)
EXTENDS Integers, Sequences, FiniteSets, TLC

VARIABLES
    now,        \* wall clock, seconds
    usec,       \* sub-second part of the clock
    cache,      \* Django cache, weather keys: cache key -> [doc, exp]
    rate,       \* Django cache, "rate_limit:<ip>" keys: ip -> [n, exp]
    throttle,   \* Django cache, DRF "throttle_anon_<ip>" keys: ip -> request times
    history,    \* table weather_weatherquery: set of rows
    dbcache,    \* table weather_weathercache: set of rows
    nextId,     \* next primary key of weather_weatherquery
    served,     \* per cache key, the last snapshot GetWeather returned
    admits,     \* per ip, the times the middleware admitted a request since the
                \* ip's counter was last absent (newest first)
    fetched,    \* per (city, ip), the ids of the rows appended for it (newest first)
    procs,      \* per worker, the request it is handling and where it stands
                \* (stale: the city was invalidated after its provider call)
    ev          \* what the last step did and answered

vars == <<now, usec, cache, rate, throttle, history, dbcache, nextId, served, admits, fetched, procs, ev>>

\* ------------------------------------------------------------------ bounds

MaxTime == 60            \* Spec: the clock stops here
MaxQueries == 2          \* Spec: history rows ever inserted
MaxRequests == 3         \* Spec: API requests per client
MaxRateTime == 60        \* SpecRate: the clock stops here
MaxRateQueries == 3      \* SpecRate: history rows ever inserted
MaxRateRequests == 6     \* SpecRate: API requests per client that pass the middleware
MaxThrottleQueries == 1  \* SpecThrottle: history rows ever inserted
MaxThrottleRequests == 101   \* SpecThrottle: API requests per client
MaxHistQueries == 12     \* SpecHist: rows the first client inserts
MaxOtherQueries == 1     \* SpecHist: rows the second client inserts
MaxConcRequests == 7     \* SpecConc: weather requests that arrive

\* --------------------------------------------------------- program constants

ONE_MINUTE == 60
RATE_LIMIT_REQUESTS == 5
RATE_LIMIT_WINDOW == 60
HISTORY_LIMIT == 10
SWEEP_LIMIT == 10
REQUEST_TIMEOUT == 10
ANON_RATE == 100
ANON_DURATION == 3600
DEFAULT_LIMIT == 10
MAX_LIMIT == 50

\* -------------------------------------------------------------------- text

\* the letters that occur in the model's texts
LowerCase == <<"a", "d", "e", "f", "i", "l", "n", "o", "p", "r", "s", "t", "u">>
UpperCase == <<"A", "D", "E", "F", "I", "L", "N", "O", "P", "R", "S", "T", "U">>

IsLowerCase(c) == \E i \in 1..Len(LowerCase) : LowerCase[i] = c
IsUpperCase(c) == \E i \in 1..Len(UpperCase) : UpperCase[i] = c

ToUpper(c) ==
    IF IsLowerCase(c) THEN UpperCase[CHOOSE i \in 1..Len(LowerCase) : LowerCase[i] = c] ELSE c

ToLower(c) ==
    IF IsUpperCase(c) THEN LowerCase[CHOOSE i \in 1..Len(UpperCase) : UpperCase[i] = c] ELSE c

IsCased(c) == IsLowerCase(c) \/ IsUpperCase(c)

IsSpace(c) == c = " "

RECURSIVE LStrip(_)
LStrip(s) ==
    IF s = <<>> THEN <<>>
    ELSE IF IsSpace(Head(s)) THEN LStrip(Tail(s)) ELSE s

RECURSIVE RStrip(_)
RStrip(s) ==
    IF s = <<>> THEN <<>>
    ELSE IF IsSpace(s[Len(s)]) THEN RStrip(SubSeq(s, 1, Len(s) - 1)) ELSE s

\* str.strip()
Strip(s) == RStrip(LStrip(s))

\* (a variant that upper-cases the first character and keeps the rest)
TitleFirstOnly(s) == [i \in 1..Len(s) |-> IF i = 1 THEN ToUpper(s[i]) ELSE s[i]]

\* str.title(): a cased character is upper-cased after an uncased one (or at
\* the start) and lower-cased after a cased one.
Title(s) ==
    [i \in 1..Len(s) |->
        IF i > 1 /\ IsCased(s[i - 1]) THEN ToLower(s[i]) ELSE ToUpper(s[i])]

\* str.lower()
Lower(s) == [i \in 1..Len(s) |-> ToLower(s[i])]

Normalize(city) == Title(Strip(city))

\* ------------------------------------------------------------------- values

PyStr(x) == [t |-> "str", v |-> x]
PyFloat(x) == [t |-> "float", v |-> x]
PyInt(x) == [t |-> "int", v |-> x]
PyNone == [t |-> "none", v |-> ""]
PyBool(b) == [t |-> "bool", v |-> IF b THEN "true" ELSE "false"]
PyDateTime(x) == [t |-> "datetime", v |-> x]
PyDict(x) == [t |-> "dict", v |-> x]

\* json.dumps of one value; default=str turns what JSON cannot carry into text.
JsonValue(x) ==
    CASE x.t = "str" -> <<"string", x.v>>
      [] x.t = "float" -> <<"float", x.v>>
      [] x.t = "int" -> <<"int", x.v>>
      [] x.t = "none" -> <<"null", "">>
      [] x.t = "bool" -> <<x.v, "">>
      [] x.t = "dict" -> <<"object", x.v>>
      [] OTHER -> <<"string", x.v>>

\* json.loads of one member
PyValue(m) ==
    CASE m[2] = "string" -> PyStr(m[3])
      [] m[2] = "float" -> PyFloat(m[3])
      [] m[2] = "int" -> PyInt(m[3])
      [] m[2] = "null" -> PyNone
      [] m[2] = "object" -> PyDict(m[3])
      [] OTHER -> PyBool(m[2] = "true")

\* the keys of a dict, in insertion order
DictKeys == <<"city", "country", "temperature", "description", "humidity",
              "pressure", "wind_speed", "provider", "raw_data", "cached_at", "cached",
              "timestamp">>

KeysOf(d) == SelectSeq(DictKeys, LAMBDA k : k \in DOMAIN d)

json_dumps(d) ==
    LET ks == KeysOf(d)
    IN  [i \in 1..Len(ks) |-> <<ks[i]>> \o JsonValue(d[ks[i]])]

json_loads(doc) ==
    [k \in {doc[i][1] : i \in 1..Len(doc)} |->
        PyValue(doc[CHOOSE i \in 1..Len(doc) : doc[i][1] = k])]

\* dict | {k: x}
Put(d, k, x) == [f \in DOMAIN d \cup {k} |-> IF f = k THEN x ELSE d[f]]

\* dict.get(k, default)
Get(d, k, default) == IF k \in DOMAIN d THEN d[k] ELSE default

WeatherFields == {"city", "country", "temperature", "description", "humidity",
                  "pressure", "wind_speed"}

\* the weather fields of a served snapshot (absent ones read as None)
Weather(d) == [k \in WeatherFields |-> Get(d, k, PyNone)]

NoWeather == [k \in WeatherFields |-> PyNone]

\* the empty dict, which is also what stands for Python's None result
NoDict == [k \in {} |-> PyNone]

\* ---------------------------------------------------------------- provider
\* (messages are sequences of words, written without their accents)

\* round(temp, 1) on the temperatures the upstream may report
Round1(x) ==
    CASE x = "25.04" -> "25.0"
      [] x = "18.46" -> "18.5"
      [] OTHER -> x

\* the upstream's JSON body for a 200 reply
UpstreamBody(city, reply, temp) ==
    LET full == [name |-> city, country |-> "BR", temp |-> temp,
                 description |-> <<"s", "r">>, humidity |-> "60",
                 pressure |-> "1013.25", speed |-> "5.5"]
    IN  CASE reply = "200" -> full
          [] reply = "200_nowind" -> [k \in DOMAIN full \ {"speed"} |-> full[k]]
          [] reply = "200_noweather" ->
                 [k \in (DOMAIN full \ {"description"}) \cup {"weather"} |->
                     IF k = "weather" THEN "[]" ELSE full[k]]
          [] OTHER -> [k \in DOMAIN full \ {"country"} |-> full[k]]

\* (a variant that answers an empty dict instead of raising)
EmptyAnswer(msg) == [ok |-> TRUE, exc |-> "", msg |-> <<>>, data |-> NoDict]

WeatherServiceException(msg) == [ok |-> FALSE, exc |-> "WeatherServiceException", msg |-> msg, data |-> NoDict]
OtherException(msg) == [ok |-> FALSE, exc |-> "Exception", msg |-> msg, data |-> NoDict]
Returned(data) == [ok |-> TRUE, exc |-> "", msg |-> <<>>, data |-> data]

\* the dict is built key by key: data["weather"][0] of an empty list raises
\* IndexError, which the except KeyError clause does not catch
parse_weather_data(data) ==
    IF {"name", "country", "temp"} \subseteq DOMAIN data
       /\ "weather" \in DOMAIN data /\ data.weather = "[]"
    THEN OtherException(<<"IndexError">>)
    ELSE IF {"name", "country", "temp", "description", "humidity", "pressure"} \subseteq DOMAIN data
    THEN Returned([city |-> PyStr(data.name),
                   country |-> PyStr(data.country),
                   temperature |-> PyFloat(Round1(data.temp)),
                   description |-> PyStr(Title(data.description)),
                   humidity |-> PyInt(data.humidity),
                   pressure |-> PyFloat(data.pressure),
                   wind_speed |-> IF "speed" \in DOMAIN data THEN PyFloat(data.speed) ELSE PyInt("0"),
                   provider |-> PyStr("openweathermap"),
                   raw_data |-> PyDict(data)])
    ELSE WeatherServiceException(<<"Erro ao processar dados da API:", "KeyError">>)

\* OpenWeatherMapService.get_weather: reply is what the upstream answers
\* ("timeout": no answer within the request timeout).
get_weather(city, api_key, reply, temp) ==
    IF api_key = ""
    THEN WeatherServiceException(<<"OpenWeatherMap API key not configured">>)
    ELSE CASE reply \in {"200", "200_nowind", "200_incomplete", "200_noweather"} ->
                  parse_weather_data(UpstreamBody(city, reply, temp))
           [] reply = "404" ->
                  WeatherServiceException(<<"Cidade", "'">> \o city \o <<"'", "nao encontrada">>)
           [] reply = "401" ->
                  WeatherServiceException(<<"Chave da API invalida">>)
           [] reply = "timeout" ->
                  WeatherServiceException(<<"Erro de conexao:", "RequestException">>)
           [] OTHER ->
                  WeatherServiceException(<<"Erro na API:", reply>>)

\* MockWeatherService.get_weather
mock_get_weather(city) ==
    IF Lower(city) \in {<<"e", "r", "r", "o", "r">>, <<"f", "a", "i", "l">>}
    THEN WeatherServiceException(<<"Mock error for testing">>)
    ELSE IF Lower(city) = <<"n", "o", "t", "f", "o", "u", "n", "d">>
    THEN WeatherServiceException(<<"Cidade", "'">> \o city \o <<"'", "nao encontrada">>)
    ELSE Returned([city |-> PyStr(Title(city)),
                   country |-> PyStr("BR"),
                   temperature |-> PyFloat("25.0"),
                   description |-> PyStr(<<"Ensolarado">>),
                   humidity |-> PyInt("60"),
                   pressure |-> PyFloat("1013.25"),
                   wind_speed |-> PyFloat("5.5"),
                   provider |-> PyStr("mock"),
                   raw_data |-> PyDict([mock |-> TRUE])])

\* the service GetWeatherUseCase.__init__ takes when it is given none
default_weather_service(api_key) ==
    IF api_key = "" \/ api_key = "your_openweathermap_api_key_here"
    THEN "mock" ELSE "openweathermap"

\* self.weather_service.get_weather(city) of such a use case
service_get_weather(city, env) ==
    IF default_weather_service(env.api_key) = "mock"
    THEN mock_get_weather(city)
    ELSE get_weather(city, env.api_key, env.reply, env.temp)

\* ------------------------------------------------------- cache repository

Live(c, key, t) == key \in DOMAIN c /\ t < c[key].exp

\* (a variant that leaves a live entry as it is, as cache.add does)
CacheSetIfAbsent(c, key, doc, ttl, t) ==
    IF key \in DOMAIN c /\ t < c[key].exp THEN c
    ELSE [k \in DOMAIN c \cup {key} |-> IF k = key THEN [doc |-> doc, exp |-> t + ttl] ELSE c[k]]

\* (a variant that keeps an entry for twice its timeout)
CacheSetTwice(c, key, doc, ttl, t) ==
    [k \in DOMAIN c \cup {key} |->
        IF k = key THEN [doc |-> doc, exp |-> t + ttl + ttl] ELSE c[k]]

\* cache.set(key, value, timeout)
CacheSet(c, key, doc, ttl, t) ==
    [k \in DOMAIN c \cup {key} |-> IF k = key THEN [doc |-> doc, exp |-> t + ttl] ELSE c[k]]

\* cache.delete(key)
CacheDelete(c, key) == [k \in DOMAIN c \ {key} |-> c[k]]

\* RedisWeatherCacheRepository._get_cache_key (the prefix is the same for all)
get_cache_key(city) == Lower(city)

\* (a variant that looks the city up under its display name)
get_cached_weather_raw_key(c, city, t, fails) ==
    IF ~fails /\ Live(c, city, t) /\ c[city].doc # <<>>
    THEN json_loads(c[city].doc)
    ELSE NoDict

\* (a variant that answers the entry although the read failed)
get_cached_weather_ignoring_failure(c, city, t, fails) ==
    LET cache_key == get_cache_key(city)
    IN  IF Live(c, cache_key, t) /\ c[cache_key].doc # <<>>
        THEN json_loads(c[cache_key].doc)
        ELSE NoDict

\* fails: cache.get raises, which is logged and answered None
get_cached_weather(c, city, t, fails) ==
    LET cache_key == get_cache_key(city)
    IN  IF ~fails /\ Live(c, cache_key, t) /\ c[cache_key].doc # <<>>
        THEN json_loads(c[cache_key].doc)
        ELSE NoDict

\* (a variant that passes no timeout on to cache.set)
cache_weather_no_ttl(c, city, weather_data, ttl_seconds, t, fails) ==
    LET data == Put(weather_data, "cached_at", PyStr(<<"iso", t>>))
    IN  [cache |-> IF fails THEN c
                   ELSE CacheSet(c, get_cache_key(city), json_dumps(data), 0, t),
         weather_data |-> data, raised |-> FALSE]

\* (a variant without the try/except)
cache_weather_unguarded(c, city, weather_data, ttl_seconds, t, fails) ==
    LET data == Put(weather_data, "cached_at", PyStr(<<"iso", t>>))
    IN  [cache |-> IF fails THEN c
                   ELSE CacheSet(c, get_cache_key(city), json_dumps(data), ttl_seconds, t),
         weather_data |-> data, raised |-> fails]

\* cache_weather also adds cached_at to the caller's dict; fails: cache.set
\* raises, which is logged and swallowed
cache_weather(c, city, weather_data, ttl_seconds, t, fails) ==
    LET data == Put(weather_data, "cached_at", PyStr(<<"iso", t>>))
    IN  [cache |-> IF fails THEN c
                   ELSE CacheSet(c, get_cache_key(city), json_dumps(data), ttl_seconds, t),
         weather_data |-> data, raised |-> FALSE]

\* (a variant that deletes under the city name instead of the cache key)
invalidate_cache_unkeyed(c, city, fails) ==
    IF fails THEN c ELSE CacheDelete(c, city)

\* fails: cache.delete raises, which is logged and swallowed
invalidate_cache(c, city, fails) ==
    IF fails THEN c ELSE CacheDelete(c, get_cache_key(city))

\* --------------------------------------------- database cache repository
\* (rows of WeatherCache: id, city, doc, created_at, expires_at)

\* WeatherCache.is_expired: timezone.now() > self.expires_at
is_expired(row, t) == t > row.expires_at

\* the rows filter(city=key) gives
OfCity(tb, key) == {r \in tb : r.city = key}

\* DatabaseWeatherCacheRepository.get_cached_weather: the set of its
\* outcomes.  first() takes the newest row of the city; an expired one is
\* deleted and answered None.
db_get_cached_weather(tb, city, t) ==
    LET found == OfCity(tb, Lower(city))
    IN  IF found = {} THEN {[data |-> NoDict, table |-> tb]}
        ELSE {IF ~is_expired(cache_entry, t)
              THEN [data |-> json_loads(cache_entry.doc), table |-> tb]
              ELSE [data |-> NoDict, table |-> tb \ {cache_entry}] :
                 cache_entry \in {r \in found : \A o \in found : o.created_at <= r.created_at}}

NextPk(tb) == IF tb = {} THEN 1 ELSE 1 + CHOOSE m \in {r.id : r \in tb} : \A r \in tb : r.id <= m

\* (a variant that inserts a row on every write)
db_cache_weather_inserting(tb, city, weather_data, ttl_seconds, t) ==
    tb \cup {[id |-> IF tb = {} THEN 1
                     ELSE 1 + CHOOSE m \in {r.id : r \in tb} : \A r \in tb : r.id <= m,
              city |-> Lower(city),
              doc |-> json_dumps(Put(weather_data, "cached_at", PyStr(<<"iso", t>>))),
              created_at |-> t, expires_at |-> t + ttl_seconds]}

\* DatabaseWeatherCacheRepository.cache_weather: update_or_create on the
\* lowercased city.  Several rows of the city make it raise, which is logged
\* and swallowed.
db_cache_weather(tb, city, weather_data, ttl_seconds, t) ==
    LET doc == json_dumps(Put(weather_data, "cached_at", PyStr(<<"iso", t>>)))
        found == OfCity(tb, Lower(city))
    IN  IF found = {}
        THEN tb \cup {[id |-> NextPk(tb), city |-> Lower(city), doc |-> doc,
                       created_at |-> t, expires_at |-> t + ttl_seconds]}
        ELSE IF Cardinality(found) = 1
        THEN (tb \ found) \cup {[r EXCEPT !.doc = doc, !.created_at = t,
                                          !.expires_at = t + ttl_seconds] : r \in found}
        ELSE tb

\* DatabaseWeatherCacheRepository.invalidate_cache
db_invalidate_cache(tb, city) == tb \ OfCity(tb, Lower(city))

\* (a variant that also removes the rows that expire at this instant)
cleanup_expired_inclusive(tb, t) == {r \in tb : ~(r.expires_at <= t)}

\* WeatherCache.cleanup_expired: filter(expires_at__lt=timezone.now()).delete()
cleanup_expired(tb, t) == {r \in tb : ~(r.expires_at < t)}

\* the task cleanup_expired_cache_entries: counts, then purges
cleanup_expired_cache_entries(tb, t) ==
    [expired_count |-> Cardinality({r \in tb : r.expires_at < t}),
     table |-> cleanup_expired(tb, t)]

\* ------------------------------------------------------- query repository

Newer(a, b) == a.s > b.s \/ (a.s = b.s /\ a.u > b.u)

\* the results order_by("-created_at") may give: rows with equal created_at
\* come in any order
RECURSIVE OrderByCreatedDesc(_)
OrderByCreatedDesc(rows) ==
    IF rows = {} THEN {<<>>}
    ELSE UNION {{<<m>> \o q : q \in OrderByCreatedDesc(rows \ {m})} :
                m \in {r \in rows : \A o \in rows : ~Newer(o.created_at, r.created_at)}}

Range(q) == {q[i] : i \in 1..Len(q)}

Filter(h, city, ip) == {r \in h : r.city = city /\ r.ip = ip}

save_query(h, id, city, ip, weather_data, ts) ==
    h \cup {[id |-> id, city |-> city, ip |-> ip,
             temperature |-> Get(weather_data, "temperature", PyInt("0")),
             description |-> Get(weather_data, "description", PyStr(<<>>)),
             humidity |-> Get(weather_data, "humidity", PyNone),
             pressure |-> Get(weather_data, "pressure", PyNone),
             wind_speed |-> Get(weather_data, "wind_speed", PyNone),
             country |-> Get(weather_data, "country", PyStr("")),
             created_at |-> ts]}

\* (a variant that lists the rows of every client)
get_history_any_client(h, city, ip, limit, fails) ==
    IF fails THEN {<<>>}
    ELSE {SubSeq(q, 1, IF Len(q) < limit THEN Len(q) ELSE limit) :
             q \in OrderByCreatedDesc({r \in h : r.city = city})}

\* (a variant that lists the rows also when the query has raised)
get_history_ignoring_failure(h, city, ip, limit, fails) ==
    {SubSeq(q, 1, IF Len(q) < limit THEN Len(q) ELSE limit) :
        q \in OrderByCreatedDesc({r \in h : r.city = city /\ r.ip = ip})}

\* the lists get_history may return; fails: the query raises, which is logged
\* and answered with []
get_history(h, city, ip, limit, fails) ==
    IF fails THEN {<<>>}
    ELSE {SubSeq(q, 1, IF Len(q) < limit THEN Len(q) ELSE limit) :
             q \in OrderByCreatedDesc(Filter(h, city, ip))}

\* WeatherQuery.cleanup_old_queries: the tables it may leave
cleanup_old_queries(h, city, ip, limit) ==
    LET queries == Filter(h, city, ip)
    IN  IF Cardinality(queries) > limit
        THEN {h \ Range(SubSeq(q, limit + 1, Len(q))) : q \in OrderByCreatedDesc(queries)}
        ELSE {h}

\* DjangoWeatherQueryRepository.save_query: a failing INSERT is logged and
\* raised again
repo_save_query(h, id, city, ip, weather_data, ts, fails) ==
    IF fails THEN [raised |-> TRUE, history |-> h]
    ELSE [raised |-> FALSE, history |-> save_query(h, id, city, ip, weather_data, ts)]

\* DjangoWeatherQueryRepository.cleanup_old_queries: a failure is logged and
\* swallowed
repo_cleanup_old_queries(h, city, ip, limit, fails) ==
    IF fails THEN {[raised |-> FALSE, history |-> h]}
    ELSE {[raised |-> FALSE, history |-> h2] : h2 \in cleanup_old_queries(h, city, ip, limit)}

\* ---------------------------------------------------------------- use cases

\* (a variant without the try/except)
save_to_history_unguarded(h, id, city, ip, weather_data, ts, hfail) ==
    LET saved == repo_save_query(h, id, city, ip, weather_data, ts, hfail = "save")
    IN  IF saved.raised
        THEN {saved}
        ELSE repo_cleanup_old_queries(saved.history, city, ip, HISTORY_LIMIT,
                                      hfail = "cleanup")

\* GetWeatherUseCase._save_to_history: hfail names the store call that fails
save_to_history(h, id, city, ip, weather_data, ts, hfail) ==
    LET saved == repo_save_query(h, id, city, ip, weather_data, ts, hfail = "save")
    IN  IF saved.raised
        THEN {[raised |-> FALSE, history |-> saved.history]}
        ELSE {[raised |-> FALSE, history |-> r.history] :
                r \in repo_cleanup_old_queries(saved.history, city, ip, HISTORY_LIMIT,
                                               hfail = "cleanup")}

\* GetWeatherUseCase.execute: the set of its possible outcomes.  An outcome is
\* what it returns or raises, the stores it leaves and what it touched.
GetWeather(city_in, ip, c, h, id, t, u, env) ==
    LET city == Title(Strip(city_in))
        cached_data == get_cached_weather(c, city, t, env.cfail = "get")
        base == [city |-> city, ok |-> TRUE, msg |-> <<>>, data |-> NoDict,
                 cache |-> c, history |-> h, nextId |-> id, usec |-> u,
                 provider_called |-> FALSE, cache_written |-> FALSE,
                 history_appended |-> FALSE, history_trimmed |-> FALSE]
    IN  IF cached_data # NoDict
        THEN {[base EXCEPT !.data = Put(Put(cached_data, "cached", PyBool(TRUE)),
                                        "timestamp", PyDateTime(<<"iso", t>>))]}
        ELSE LET res == service_get_weather(city, env)
             IN  IF ~res.ok
                 THEN {[base EXCEPT !.ok = FALSE, !.provider_called = TRUE,
                            !.msg = IF res.exc = "WeatherServiceException" THEN res.msg
                                    ELSE <<"Erro interno do servico:">> \o res.msg]}
                 ELSE LET cw == cache_weather(c, city, res.data, ONE_MINUTE, t, env.cfail = "set")
                          stored == [base EXCEPT
                                        !.provider_called = TRUE,
                                        !.cache_written = env.cfail # "set",
                                        !.cache = cw.cache,
                                        !.nextId = IF env.hfail = "save" THEN id ELSE id + 1,
                                        !.usec = IF env.hfail = "save" THEN u ELSE u + 1,
                                        !.history_appended = env.hfail # "save",
                                        !.history_trimmed = env.hfail = "none"]
                      IN  IF cw.raised
                          THEN {[base EXCEPT !.ok = FALSE, !.provider_called = TRUE,
                                     !.msg = <<"Erro interno do servico:", "Exception">>]}
                          ELSE
                          {IF sh.raised
                           THEN [stored EXCEPT !.ok = FALSE, !.history = sh.history,
                                     !.msg = <<"Erro interno do servico:", "Exception">>]
                           ELSE [stored EXCEPT
                                     !.history = sh.history,
                                     !.data = Put(Put(cw.weather_data, "cached", PyBool(FALSE)),
                                                  "timestamp", PyDateTime(<<"iso", t>>))] :
                           sh \in save_to_history(h, id, city, ip, cw.weather_data,
                                                  [s |-> t, u |-> u], env.hfail)}

\* GetWeatherHistoryUseCase.execute
GetHistory(city_in, ip, limit, h, fails) ==
    LET city == Title(Strip(city_in))
    IN  {[city |-> city, queries |-> queries, total |-> Len(queries), limit |-> limit] :
            queries \in get_history(h, city, ip, limit, fails)}

\* InvalidateCacheUseCase.execute
InvalidateCache(city_in, c, fails) ==
    LET city == Title(Strip(city_in))
    IN  invalidate_cache(c, city, fails)

\* ------------------------------------------------------------------- views

\* what handling a request leaves and answers
Outcome(c, h, id, u, r, th) ==
    [status |-> 0, by |-> "", data |-> NoDict, msg |-> <<>>, city |-> <<>>,
     limit |-> 0, retry_after |-> 0, queries |-> <<>>, total |-> 0,
     cache |-> c, history |-> h, nextId |-> id, usec |-> u, rate |-> r, throttle |-> th,
     reached |-> FALSE, provider_called |-> FALSE, cache_written |-> FALSE,
     history_appended |-> FALSE, history_trimmed |-> FALSE]

\* str(e).lower() on the words of a message
LowerWords(msg) ==
    [i \in 1..Len(msg) |->
        CASE msg[i] = "Cidade" -> "cidade"
          [] msg[i] = "Erro na API:" -> "erro na api:"
          [] msg[i] = "Erro de conexao:" -> "erro de conexao:"
          [] msg[i] = "Erro interno do servico:" -> "erro interno do servico:"
          [] msg[i] = "Erro ao processar dados da API:" -> "erro ao processar dados da api:"
          [] msg[i] = "Chave da API invalida" -> "chave da api invalida"
          [] msg[i] = "OpenWeatherMap API key not configured" -> "openweathermap api key not configured"
          [] msg[i] = "RequestException" -> "requestexception"
          [] msg[i] = "KeyError" -> "keyerror"
          [] msg[i] = "Mock error for testing" -> "mock error for testing"
          [] msg[i] = "Exception" -> "exception"
          [] OTHER -> ToLower(msg[i])]

Contains(msg, word) == \E i \in 1..Len(msg) : msg[i] = word

\* (a variant that accepts a blank city)
WeatherRequestSerializer_allow_blank(params) ==
    IF "city" \notin DOMAIN params THEN [valid |-> FALSE, city |-> <<>>]
    ELSE [valid |-> TRUE, city |-> Title(Strip(Strip(params.city)))]

\* WeatherRequestSerializer: CharField (required, not blank, trimmed), then
\* validate_city
WeatherRequestSerializer(params) ==
    IF "city" \notin DOMAIN params THEN [valid |-> FALSE, city |-> <<>>]
    ELSE IF Strip(params.city) = <<>> THEN [valid |-> FALSE, city |-> <<>>]
    ELSE [valid |-> TRUE, city |-> Title(Strip(Strip(params.city)))]

\* FloatField.to_representation: float(value)
ToFloat(x) ==
    IF x.t = "int" THEN PyFloat(IF x.v = "0" THEN "0.0" ELSE x.v) ELSE x

\* WeatherResponseSerializer(weather_data).data
WeatherResponseSerializer(d) ==
    [k \in DOMAIN d \cap (WeatherFields \cup {"cached", "timestamp"}) |->
        IF k \in {"temperature", "pressure", "wind_speed"} THEN ToFloat(d[k]) ELSE d[k]]

\* (a variant that looks for the English wording)
ErrorStatusEnglish(msg) ==
    IF Contains(LowerWords(msg), "not found") THEN 404 ELSE 500

\* the status WeatherView.get gives a WeatherServiceException
ErrorStatus(msg) ==
    IF Contains(LowerWords(msg), "nao encontrada") THEN 404 ELSE 500

\* WeatherView.get
WeatherView(params, ip, o, t, env) ==
    LET serializer == WeatherRequestSerializer(params)
    IN  IF ~serializer.valid
        THEN {[o EXCEPT !.status = 400, !.by = "view"]}
        ELSE {IF g.ok
              THEN [o EXCEPT !.status = 200, !.by = "view", !.reached = TRUE,
                        !.city = g.city, !.data = WeatherResponseSerializer(g.data),
                        !.cache = g.cache, !.history = g.history,
                        !.nextId = g.nextId, !.usec = g.usec,
                        !.provider_called = g.provider_called,
                        !.cache_written = g.cache_written,
                        !.history_appended = g.history_appended,
                        !.history_trimmed = g.history_trimmed]
              ELSE [o EXCEPT !.status = ErrorStatus(g.msg),
                        !.by = "view", !.reached = TRUE, !.city = g.city, !.msg = g.msg,
                        !.cache = g.cache, !.history = g.history,
                        !.nextId = g.nextId, !.usec = g.usec,
                        !.provider_called = g.provider_called,
                        !.cache_written = g.cache_written,
                        !.history_appended = g.history_appended,
                        !.history_trimmed = g.history_trimmed] :
              g \in GetWeather(serializer.city, ip, o.cache, o.history, o.nextId, t, o.usec, env)}

Digits == <<"0", "1", "2", "3", "4", "5", "6", "7", "8", "9">>

IsDigit(c) == \E i \in 1..Len(Digits) : Digits[i] = c

DigitValue(c) == (CHOOSE i \in 1..Len(Digits) : Digits[i] = c) - 1

RECURSIVE DecimalValue(_)
DecimalValue(s) ==
    IF s = <<>> THEN 0
    ELSE 10 * DecimalValue(SubSeq(s, 1, Len(s) - 1)) + DigitValue(s[Len(s)])

\* int(text): surrounding whitespace is dropped, one sign is allowed, the
\* rest must be decimal digits; anything else raises ValueError
int(text) ==
    LET t == Strip(text)
        signed == t # <<>> /\ Head(t) \in {"+", "-"}
        digits == IF signed THEN Tail(t) ELSE t
    IN  IF digits = <<>> \/ \E i \in 1..Len(digits) : ~IsDigit(digits[i])
        THEN [raised |-> TRUE, value |-> 0]
        ELSE [raised |-> FALSE,
              value |-> IF signed /\ Head(t) = "-" THEN 0 - DecimalValue(digits)
                        ELSE DecimalValue(digits)]

\* (a variant that clamps an out-of-range limit to the nearest bound)
HistoryLimitClamped(params) ==
    IF "limit" \notin DOMAIN params THEN DEFAULT_LIMIT
    ELSE IF int(params.limit).raised THEN DEFAULT_LIMIT
    ELSE IF int(params.limit).value < 1 THEN 1
    ELSE IF int(params.limit).value > MAX_LIMIT THEN MAX_LIMIT
    ELSE int(params.limit).value

\* WeatherHistoryView.get: int(request.query_params.get("limit", 10)), 10 when
\* the value is out of range, 10 when int raises
HistoryLimit(params) ==
    IF "limit" \notin DOMAIN params THEN DEFAULT_LIMIT
    ELSE IF int(params.limit).raised THEN DEFAULT_LIMIT
    ELSE IF int(params.limit).value < 1 \/ int(params.limit).value > MAX_LIMIT
         THEN DEFAULT_LIMIT
    ELSE int(params.limit).value

\* (a variant that also drops the cached snapshot of the city)
WeatherHistoryView_invalidating(params, ip, o) ==
    IF "city" \notin DOMAIN params \/ params.city = <<>>
    THEN {[o EXCEPT !.status = 400, !.by = "view"]}
    ELSE {[o EXCEPT !.status = 200, !.by = "view", !.city = g.city,
               !.queries = g.queries, !.total = g.total, !.limit = g.limit,
               !.cache = CacheDelete(o.cache, get_cache_key(g.city))] :
          g \in GetHistory(Title(Strip(params.city)), ip, HistoryLimit(params), o.history,
                          FALSE)}

\* WeatherHistoryView.get
WeatherHistoryView(params, ip, o) ==
    IF "city" \notin DOMAIN params \/ params.city = <<>>
    THEN {[o EXCEPT !.status = 400, !.by = "view"]}
    ELSE {[o EXCEPT !.status = 200, !.by = "view", !.city = g.city,
               !.queries = g.queries, !.total = g.total, !.limit = g.limit] :
          g \in GetHistory(Title(Strip(params.city)), ip, HistoryLimit(params), o.history,
                          FALSE)}

\* WeatherCacheView.delete
WeatherCacheView(params, o, env) ==
    IF "city" \notin DOMAIN params \/ params.city = <<>>
    THEN {[o EXCEPT !.status = 400, !.by = "view"]}
    ELSE {[o EXCEPT !.status = 200, !.by = "view",
               !.city = Title(Strip(Title(Strip(params.city)))),
               !.cache = InvalidateCache(Title(Strip(params.city)), o.cache,
                                         env.cfail = "delete")]}

\* HealthCheckView.get, with the database and the cache reachable
HealthCheckView(o) == {[o EXCEPT !.status = 200, !.by = "view"]}

\* the views that are rest_framework APIViews, by path
ApiPaths == {"/api/v1/weather/", "/api/v1/weather/history/", "/api/v1/weather/cache/", "/health/"}

\* rest_framework's AnonRateThrottle at DEFAULT_THROTTLE_RATES["anon"], which
\* APIView.initial runs before the handler: the request times of the last
\* hour are kept per client, newest first
ThrottleHistory(th, ip, t) ==
    IF ip \in DOMAIN th
    THEN SelectSeq(th[ip], LAMBDA x : x > t - ANON_DURATION)
    ELSE <<>>

ThrottleAllows(th, ip, t) == Len(ThrottleHistory(th, ip, t)) < ANON_RATE

ThrottleRecord(th, ip, t) ==
    [k \in DOMAIN th \cup {ip} |-> IF k = ip THEN <<t>> \o ThrottleHistory(th, ip, t) ELSE th[k]]

\* the URL configuration and APIView.dispatch
Dispatch(path, params, ip, o, t, env) ==
    IF path \in ApiPaths /\ ~ThrottleAllows(o.throttle, ip, t)
    THEN {[o EXCEPT !.status = 429, !.by = "throttle"]}
    ELSE LET o2 == IF path \in ApiPaths
                   THEN [o EXCEPT !.throttle = ThrottleRecord(o.throttle, ip, t)]
                   ELSE o
         IN  CASE path = "/api/v1/weather/" -> WeatherView(params, ip, o2, t, env)
               [] path = "/api/v1/weather/history/" -> WeatherHistoryView(params, ip, o2)
               [] path = "/api/v1/weather/cache/" -> WeatherCacheView(params, o2, env)
               [] path = "/health/" -> HealthCheckView(o2)
               [] OTHER -> {[o2 EXCEPT !.status = 200, !.by = "view"]}

\* -------------------------------------------------------------- middleware

TESTING == FALSE
BDD_RATE_LIMITING_ENABLED == FALSE

\* cache.get("rate_limit:<ip>", 0)
RateGet(r, ip, t) == IF ip \in DOMAIN r /\ t < r[ip].exp THEN r[ip].n ELSE 0

\* cache.set("rate_limit:<ip>", n, window_seconds)
RateSet(r, ip, n, t) ==
    [k \in DOMAIN r \cup {ip} |-> IF k = ip THEN [n |-> n, exp |-> t + RATE_LIMIT_WINDOW] ELSE r[k]]

\* RateLimitMiddleware.get_client_ip: the first address of X-Forwarded-For
\* when the header is there and not empty, REMOTE_ADDR otherwise.  The header
\* is held as the list of its comma-separated parts, <<>> when it is absent
\* or empty.
get_client_ip(meta) ==
    IF meta.HTTP_X_FORWARDED_FOR # <<>>
    THEN meta.HTTP_X_FORWARDED_FOR[1]
    ELSE meta.REMOTE_ADDR

\* (a variant that finds the limit reached when any client has reached it)
is_rate_limited_any(r, ip, t) ==
    \E k \in DOMAIN r \cup {ip} : RateGet(r, k, t) >= RATE_LIMIT_REQUESTS

\* (a variant that compares with > instead of >=)
is_rate_limited_gt(r, ip, t) == RateGet(r, ip, t) > RATE_LIMIT_REQUESTS

is_rate_limited(r, ip, t) == RateGet(r, ip, t) >= RATE_LIMIT_REQUESTS

record_request(r, ip, t) == RateSet(r, ip, RateGet(r, ip, t) + 1, t)

\* (a variant whose rejection stores the counter again, with a new lifetime)
RateLimitMiddleware_touching(path, params, ip, o, t, env) ==
    IF path \in {"/health/", "/metrics"} THEN Dispatch(path, params, ip, o, t, env)
    ELSE IF TESTING /\ ~BDD_RATE_LIMITING_ENABLED THEN Dispatch(path, params, ip, o, t, env)
    ELSE IF path # "/api/v1/weather/" THEN Dispatch(path, params, ip, o, t, env)
    ELSE IF is_rate_limited(o.rate, ip, t)
         THEN {[o EXCEPT !.status = 429, !.by = "middleware",
                    !.rate = RateSet(o.rate, ip, RateGet(o.rate, ip, t), t),
                    !.limit = RATE_LIMIT_REQUESTS, !.retry_after = RATE_LIMIT_WINDOW]}
         ELSE Dispatch(path, params, ip, [o EXCEPT !.rate = record_request(o.rate, ip, t)], t, env)

\* (a variant that records the request before it checks the limit)
RateLimitMiddleware_record_first(path, params, ip, o, t, env) ==
    IF path \in {"/health/", "/metrics"} THEN Dispatch(path, params, ip, o, t, env)
    ELSE IF TESTING /\ ~BDD_RATE_LIMITING_ENABLED THEN Dispatch(path, params, ip, o, t, env)
    ELSE IF path # "/api/v1/weather/" THEN Dispatch(path, params, ip, o, t, env)
    ELSE IF is_rate_limited(o.rate, ip, t)
         THEN {[o EXCEPT !.status = 429, !.by = "middleware",
                    !.rate = record_request(o.rate, ip, t),
                    !.limit = RATE_LIMIT_REQUESTS, !.retry_after = RATE_LIMIT_WINDOW]}
         ELSE Dispatch(path, params, ip, [o EXCEPT !.rate = record_request(o.rate, ip, t)], t, env)

\* RateLimitMiddleware.__call__, with nothing else running in between
RateLimitMiddleware(path, params, ip, o, t, env) ==
    IF path \in {"/health/", "/metrics"} THEN Dispatch(path, params, ip, o, t, env)
    ELSE IF TESTING /\ ~BDD_RATE_LIMITING_ENABLED THEN Dispatch(path, params, ip, o, t, env)
    ELSE IF path # "/api/v1/weather/" THEN Dispatch(path, params, ip, o, t, env)
    ELSE IF is_rate_limited(o.rate, ip, t)
         THEN {[o EXCEPT !.status = 429, !.by = "middleware",
                    !.limit = RATE_LIMIT_REQUESTS, !.retry_after = RATE_LIMIT_WINDOW]}
         ELSE Dispatch(path, params, ip, [o EXCEPT !.rate = record_request(o.rate, ip, t)], t, env)

\* ------------------------------------------------------------------- tasks

\* (a variant with LIMIT 11)
SweepKeepEleven(q) == IF Len(q) < SWEEP_LIMIT + 1 THEN Len(q) ELSE SWEEP_LIMIT + 1

\* LIMIT 10
SweepKeep(q) == IF Len(q) < SWEEP_LIMIT THEN Len(q) ELSE SWEEP_LIMIT

\* the DELETE of cleanup_weather_history_minutely for one city: the tables it
\* may leave (LIMIT 10 over ORDER BY created_at DESC) and its cursor.rowcount
SweepCity(h, city) ==
    LET rows == {r \in h : r.city = city}
    IN  {[history |-> h \ (rows \ Range(SubSeq(q, 1, SweepKeep(q)))),
          rowcount |-> Cardinality(rows \ Range(SubSeq(q, 1, SweepKeep(q))))] :
            q \in OrderByCreatedDesc(rows)}

\* the loop over unique_cities: total_deleted += cursor.rowcount
RECURSIVE SweepCities(_, _, _)
SweepCities(h, cities, total_deleted) ==
    IF cities = {} THEN {[history |-> h, total_deleted |-> total_deleted]}
    ELSE LET city == CHOOSE c \in cities : TRUE
         IN  UNION {SweepCities(d.history, cities \ {city}, total_deleted + d.rowcount) :
                        d \in SweepCity(h, city)}

\* (a variant that reports the number of cities it deleted rows of)
cleanup_weather_history_minutely_counting_cities(h) ==
    {[r EXCEPT !.total_deleted =
          Cardinality({c \in {x.city : x \in h} :
                          Cardinality({x \in h : x.city = c}) > SWEEP_LIMIT})] :
        r \in SweepCities(h, {x.city : x \in h}, 0)}

\* (a variant whose inner SELECT skips the newest row of the city)
cleanup_weather_history_minutely_skipping_newest(h) ==
    LET newer(x) == Cardinality({y \in h : y.city = x.city /\
                                    Newer(y.created_at, x.created_at)})
        old == {x \in h : newer(x) = 0 \/ newer(x) > SWEEP_LIMIT}
    IN  {[history |-> h \ old, total_deleted |-> Cardinality(old)]}

\* (a variant that keeps one row more per city)
cleanup_weather_history_minutely_keeping_eleven(h) ==
    LET old == {x \in h : Cardinality({y \in h : y.city = x.city /\
                                  Newer(y.created_at, x.created_at)}) > SWEEP_LIMIT}
    IN  {[history |-> h \ old, total_deleted |-> Cardinality(old)]}

\* cleanup_weather_history_minutely, with nothing else running in between
cleanup_weather_history_minutely(h) ==
    SweepCities(h, {r.city : r \in h}, 0)

\* ------------------------------------------------------------------ inputs

IPs == {"10.0.0.1", "10.0.0.2"}

SaoPaulo == <<"s", "p">>

\* spellings of one city
Spellings == {SaoPaulo, <<" ", "S", "P", " ">>}

\* the cities the mock service fails for
MockFailCities == {<<"f", "a", "i", "l">>, <<"n", "o", "t", "f", "o", "u", "n", "d">>}

Temps == {"25.04", "18.46"}

\* what a fetch meets: the API key in the settings, the upstream's reply, and
\* the history store call that fails (if any)
Env(api_key, reply, temp, hfail) ==
    [api_key |-> api_key, reply |-> reply, temp |-> temp, hfail |-> hfail,
     cfail |-> "none"]

\* the same, with the cache call that fails: "get", "set" or "delete"
CacheFault(env, cfail) == [env EXCEPT !.cfail = cfail]

Healthy == {Env("k", "200", temp, "none") : temp \in Temps}

\* no API key in the settings: the mock service answers
Mock == Env("", "", "", "none")

ProviderFaults ==
    {Env("k", reply, "25.04", "none") :
        reply \in {"200_incomplete", "404", "401", "503", "timeout"}}

HistoryFaults == {Env("k", "200", "25.04", hfail) : hfail \in {"save", "cleanup"}}

Envs == Healthy \cup ProviderFaults \cup HistoryFaults \cup {Mock}

NoEnv == Env("k", "", "", "none")

\* the weather requests of Spec: city parameter and what the fetch meets
WeatherInputs == (Spellings \X Envs) \cup (MockFailCities \X {Mock})

Params(city) == [city |-> city]

WeatherPath == "/api/v1/weather/"
OtherPaths == {"/api/v1/weather/history/", "/api/v1/weather/cache/", "/health/", "/metrics"}

\* ------------------------------------------------------------------- state

Procs == {1, 2}

NoProc == [pc |-> "idle", ip |-> "", cur |-> 0]

Event(kind, ip, path, o) ==
    [kind |-> kind, ip |-> ip, path |-> path,
     status |-> o.status, by |-> o.by, city |-> o.city, msg |-> o.msg,
     cached |-> Get(o.data, "cached", PyNone), weather |-> Weather(o.data),
     limit |-> o.limit, retry_after |-> o.retry_after,
     queries |-> o.queries, total |-> o.total,
     reached |-> o.reached, provider_called |-> o.provider_called,
     cache_written |-> o.cache_written,
     history_appended |-> o.history_appended, history_trimmed |-> o.history_trimmed,
     deleted |-> 0, params |-> <<>>]

NoOutcome == Outcome(<<>>, {}, 1, 0, <<>>, <<>>)

Init ==
    /\ now = 0
    /\ usec = 0
    /\ cache = <<>>
    /\ rate = <<>>
    /\ throttle = <<>>
    /\ history = {}
    /\ dbcache = {}
    /\ nextId = 1
    /\ served = <<>>
    /\ admits = <<>>
    /\ fetched = <<>>
    /\ procs = [p \in Procs |-> NoProc]
    /\ ev = Event("init", "", "", NoOutcome)

\* the snapshots GetWeather returned with cached = false, per cache key, until
\* the key is invalidated
Served(sv, city, raw, data, t) ==
    IF Get(data, "cached", PyNone) = PyBool(FALSE)
    THEN [k \in DOMAIN sv \cup {get_cache_key(city)} |->
            IF k = get_cache_key(city)
            THEN [weather |-> Weather(data), at |-> t, raw |-> raw]
            ELSE sv[k]]
    ELSE sv

Unserved(sv, city) == [k \in DOMAIN sv \ {get_cache_key(city)} |-> sv[k]]

\* one more admission for ip
Admitted(ad, ip, t) ==
    [k \in DOMAIN ad \cup {ip} |->
        IF k = ip THEN <<t>> \o (IF ip \in DOMAIN ad THEN ad[ip] ELSE <<>>) ELSE ad[k]]

\* the row with this id was appended for (city, ip)
Fetched(f, city, ip, id) ==
    [k \in DOMAIN f \cup {<<city, ip>>} |->
        IF k = <<city, ip>>
        THEN <<id>> \o (IF k \in DOMAIN f THEN f[k] ELSE <<>>)
        ELSE f[k]]

FetchedFor(f, city, ip) == IF <<city, ip>> \in DOMAIN f THEN f[<<city, ip>>] ELSE <<>>

Ids(q) == [i \in 1..Len(q) |-> q[i].id]

\* ----------------------------------------------------------------- actions

\* the paths RateLimitMiddleware counts
Limited(path) == path = WeatherPath /\ ~(TESTING /\ ~BDD_RATE_LIMITING_ENABLED)

\* one HTTP request, handled from the middleware to the response with no
\* other request in between
Request(kind, ip, path, params, env, maxq, maxr) ==
    /\ \E o \in RateLimitMiddleware(path, params, ip,
                    Outcome(cache, history, nextId, usec, rate, throttle), now, env) :
          /\ o.nextId <= maxq + 1
          /\ \A k \in DOMAIN o.throttle : Len(o.throttle[k]) <= maxr
          /\ cache' = o.cache
          /\ history' = o.history
          /\ nextId' = o.nextId
          /\ usec' = o.usec
          /\ rate' = o.rate
          /\ throttle' = o.throttle
          /\ served' = IF path = "/api/v1/weather/cache/" /\ o.status = 200
                       THEN Unserved(served, o.city)
                       ELSE IF o.reached /\ o.status = 200
                       THEN Served(served, o.city, params.city, o.data, now)
                       ELSE served
          /\ admits' = IF Limited(path) /\ o.by # "middleware"
                       THEN Admitted(admits, ip, now)
                       ELSE admits
          /\ fetched' = IF o.history_appended
                        THEN Fetched(fetched, o.city, ip, nextId)
                        ELSE fetched
          /\ ev' = [Event(kind, ip, path, o) EXCEPT !.params = params]
    /\ UNCHANGED <<dbcache, now, procs>>

WeatherRequest(ip, city, env, maxq, maxr) ==
    /\ ip \in IPs
    /\ Request("weather", ip, WeatherPath, Params(city), env, maxq, maxr)

HistoryRequest(ip, params, maxq, maxr) ==
    /\ ip \in IPs
    /\ Request("history", ip, "/api/v1/weather/history/", params, NoEnv, maxq, maxr)

CacheDeleteRequest(ip, city, maxq, maxr) ==
    /\ ip \in IPs
    /\ Request("cache_delete", ip, "/api/v1/weather/cache/", Params(city), NoEnv, maxq, maxr)

\* DELETE /api/v1/weather/cache/?city=... against the cache backend env describes
CacheDeleteFaultRequest(ip, city, env, maxq, maxr) ==
    /\ ip \in IPs
    /\ Request("cache_delete", ip, "/api/v1/weather/cache/", Params(city), env, maxq, maxr)

\* GET /api/v1/weather/?city=... as it arrives: meta holds REMOTE_ADDR and
\* the X-Forwarded-For header
ForwardedWeatherRequest(meta, city, env, maxq, maxr) ==
    /\ get_client_ip(meta) \in IPs
    /\ Request("weather", get_client_ip(meta), WeatherPath, Params(city), env, maxq, maxr)

\* GET /api/v1/weather/ with any query string
WeatherParamsRequest(ip, params, env, maxq, maxr) ==
    /\ ip \in IPs
    /\ Request("weather", ip, WeatherPath, params, env, maxq, maxr)

\* DELETE /api/v1/weather/cache/ with any query string
CacheDeleteParamsRequest(ip, params, maxq, maxr) ==
    /\ ip \in IPs
    /\ Request("cache_delete", ip, "/api/v1/weather/cache/", params, NoEnv, maxq, maxr)

HealthRequest(ip, maxq, maxr) ==
    /\ ip \in IPs
    /\ Request("health", ip, "/health/", <<>>, NoEnv, maxq, maxr)

MetricsRequest(ip, maxq, maxr) ==
    /\ ip \in IPs
    /\ Request("metrics", ip, "/metrics", <<>>, NoEnv, maxq, maxr)

\* entries past their TTL are gone
Expire(c, t) == [k \in {x \in DOMAIN c : t < c[x].exp} |-> c[k]]

\* d seconds pass
Tick(d, maxt) ==
    /\ now + d <= maxt
    /\ now' = now + d
    /\ usec' = 0
    /\ cache' = Expire(cache, now + d)
    /\ rate' = Expire(rate, now + d)
    /\ admits' = [ip \in DOMAIN admits \cap DOMAIN Expire(rate, now + d) |-> admits[ip]]
    /\ ev' = [Event("tick", "", "", NoOutcome) EXCEPT !.deleted = d]
    /\ UNCHANGED <<dbcache, throttle, history, nextId, served, fetched, procs>>

\* the Celery beat entry "cleanup-weather-history-minutely" fires
SweepTask ==
    /\ \E r \in cleanup_weather_history_minutely(history) :
          /\ history' = r.history
          /\ ev' = [Event("sweep", "", "", NoOutcome) EXCEPT !.deleted = r.total_deleted]
    /\ UNCHANGED <<dbcache, now, usec, cache, rate, throttle, nextId, served, admits, fetched, procs>>

\* GetWeatherUseCase().execute(city, ip), called directly; maxn bounds the rows
\* ever appended for (city, ip)
GetWeatherCall(ip, city, env, maxn) ==
    /\ \E g \in GetWeather(city, ip, cache, history, nextId, now, usec, env) :
          /\ g.history_appended => Len(FetchedFor(fetched, g.city, ip)) < maxn
          /\ cache' = g.cache
          /\ history' = g.history
          /\ nextId' = g.nextId
          /\ usec' = g.usec
          /\ served' = IF g.ok THEN Served(served, g.city, city, g.data, now) ELSE served
          /\ fetched' = IF g.history_appended
                        THEN Fetched(fetched, g.city, ip, nextId)
                        ELSE fetched
          /\ ev' = Event("GetWeather", ip, "",
                         [NoOutcome EXCEPT !.reached = TRUE, !.city = g.city,
                              !.data = g.data, !.msg = g.msg,
                              !.provider_called = g.provider_called,
                              !.cache_written = g.cache_written,
                              !.history_appended = g.history_appended,
                              !.history_trimmed = g.history_trimmed])
    /\ UNCHANGED <<dbcache, now, rate, throttle, admits, procs>>

\* GetWeatherHistoryUseCase().execute(city, ip, limit), called directly;
\* fails: the history store raises while it is read
GetHistoryCall(ip, city, limit, fails) ==
    /\ \E g \in GetHistory(city, ip, limit, history, fails) :
          ev' = [Event("GetHistory", ip, "",
                       [NoOutcome EXCEPT !.city = g.city, !.queries = g.queries,
                            !.total = g.total, !.limit = g.limit])
                   EXCEPT !.params = [city |-> city, fails |-> fails]]
    /\ UNCHANGED <<dbcache, now, usec, cache, rate, throttle, history, nextId, served, admits,
                   fetched, procs>>

\* InvalidateCacheUseCase().execute(city), called directly; a worker that
\* holds a snapshot it has fetched and not yet written is marked stale
InvalidateCacheCall(city) ==
    /\ cache' = InvalidateCache(city, cache, FALSE)
    /\ served' = Unserved(served, Normalize(city))
    /\ procs' = [p \in Procs |->
                    IF procs[p].pc = "set"
                       /\ get_cache_key(procs[p].city) = get_cache_key(Normalize(city))
                    THEN [procs[p] EXCEPT !.stale = TRUE]
                    ELSE procs[p]]
    /\ ev' = Event("InvalidateCache", "", "", [NoOutcome EXCEPT !.city = Normalize(city)])
    /\ UNCHANGED <<dbcache, now, usec, rate, throttle, history, nextId, admits, fetched>>

\* --- the cache repositories called directly; repo is "redis" for
\* --- RedisWeatherCacheRepository and "database" for
\* --- DatabaseWeatherCacheRepository

RepoStep(kind, repo, city, data, ttl) ==
    [Event(kind, "", "", [NoOutcome EXCEPT !.city = city, !.data = data, !.by = repo])
        EXCEPT !.params = [ttl |-> ttl]]

\* repository.cache_weather(city, weather_data, ttl_seconds)
CacheWeatherCall(repo, city, env, ttl_seconds) ==
    /\ LET res == service_get_weather(city, env)
       IN  /\ res.ok
           /\ IF repo = "redis"
              THEN /\ cache' = cache_weather(cache, city, res.data, ttl_seconds, now, FALSE).cache
                   /\ UNCHANGED dbcache
              ELSE /\ dbcache' = db_cache_weather(dbcache, city, res.data, ttl_seconds, now)
                   /\ UNCHANGED cache
           /\ ev' = RepoStep("cache_weather", repo, city, res.data, ttl_seconds)
    /\ UNCHANGED <<now, usec, rate, throttle, history, nextId, served, admits, fetched, procs>>

\* repository.get_cached_weather(city)
GetCachedWeatherCall(repo, city) ==
    /\ IF repo = "redis"
       THEN /\ ev' = RepoStep("get_cached_weather", repo, city,
                              get_cached_weather(cache, city, now, FALSE), 0)
            /\ UNCHANGED dbcache
       ELSE \E o \in db_get_cached_weather(dbcache, city, now) :
               /\ dbcache' = o.table
               /\ ev' = RepoStep("get_cached_weather", repo, city, o.data, 0)
    /\ UNCHANGED <<now, usec, cache, rate, throttle, history, nextId, served, admits,
                   fetched, procs>>

\* repository.invalidate_cache(city)
InvalidateCall(repo, city) ==
    /\ IF repo = "redis"
       THEN /\ cache' = invalidate_cache(cache, city, FALSE)
            /\ UNCHANGED dbcache
       ELSE /\ dbcache' = db_invalidate_cache(dbcache, city)
            /\ UNCHANGED cache
    /\ ev' = RepoStep("invalidate_cache", repo, city, NoDict, 0)
    /\ UNCHANGED <<now, usec, rate, throttle, history, nextId, served, admits, fetched, procs>>

\* the Celery beat entry "cleanup-expired-cache" fires
PurgeTask ==
    /\ LET done == cleanup_expired_cache_entries(dbcache, now)
       IN  /\ dbcache' = done.table
           /\ ev' = [Event("cleanup_expired_cache_entries", "", "", NoOutcome)
                        EXCEPT !.deleted = done.expired_count]
    /\ UNCHANGED <<now, usec, cache, rate, throttle, history, nextId, served, admits,
                   fetched, procs>>

\* --- cleanup_weather_history_minutely run by the Celery worker, one SQL
\* --- statement at a time

Sweeper == 2

\* unique_cities is read when the loop starts
SweepBegin ==
    /\ procs[Sweeper].pc = "idle"
    /\ procs' = [procs EXCEPT ![Sweeper] =
                    [pc |-> "sweep", ip |-> "", cur |-> 0,
                     cities |-> {r.city : r \in history}]]
    /\ ev' = Event("sweep.cities", "", "", NoOutcome)
    /\ UNCHANGED <<now, usec, cache, rate, throttle, history, dbcache, nextId, served,
                   admits, fetched>>

\* one turn of the loop: the DELETE for a city and total_deleted += rowcount
SweepDelete(city) ==
    /\ procs[Sweeper].pc = "sweep"
    /\ city \in procs[Sweeper].cities
    /\ \E d \in SweepCity(history, city) :
          /\ history' = d.history
          /\ procs' = [procs EXCEPT ![Sweeper].cities = @ \ {city},
                                    ![Sweeper].cur = @ + d.rowcount]
          /\ ev' = [Event("sweep.delete", "", "", [NoOutcome EXCEPT !.city = city])
                       EXCEPT !.deleted = d.rowcount]
    /\ UNCHANGED <<now, usec, cache, rate, throttle, dbcache, nextId, served, admits, fetched>>

\* the loop is over: return f"Deleted {total_deleted} old queries"
SweepReturn ==
    /\ procs[Sweeper].pc = "sweep"
    /\ procs[Sweeper].cities = {}
    /\ procs' = [procs EXCEPT ![Sweeper] = NoProc]
    /\ ev' = [Event("sweep.return", "", "", NoOutcome) EXCEPT !.deleted = procs[Sweeper].cur]
    /\ UNCHANGED <<now, usec, cache, rate, throttle, history, dbcache, nextId, served,
                   admits, fetched>>

\* --- GetWeatherUseCase.execute run by worker p, one call to a store or to
\* --- the provider at a time; did is the list of the calls made so far

Working(p, pc, did) == [procs[p] EXCEPT !.pc = pc, !.did = did]

RaceStep(kind, p) ==
    [Event(kind, procs[p].ip, "", NoOutcome) EXCEPT !.deleted = p, !.city = procs[p].city]

\* execute up to cache_repository.get_cached_weather: a hit returns at once
Lookup(p, ip, city_in, maxn) ==
    /\ procs[p].pc \in {"idle", "done"}
    /\ nextId + Cardinality({q \in Procs : procs[q].pc \in {"fetch", "set", "save"}}) <= maxn
    /\ LET city == Title(Strip(city_in))
           cached_data == get_cached_weather(cache, city, now, FALSE)
           begun == [pc |-> "fetch", ip |-> ip, cur |-> 0, city |-> city, raw |-> city_in,
                     data |-> NoDict, row |-> 0, did |-> <<"cache.get">>, stale |-> FALSE,
                     ids |-> {}]
       IN  IF cached_data # NoDict
           THEN /\ procs' = [procs EXCEPT ![p] =
                               [begun EXCEPT !.pc = "done",
                                    !.data = Put(Put(cached_data, "cached", PyBool(TRUE)),
                                                 "timestamp", PyDateTime(<<"iso", now>>))]]
                /\ ev' = Event("GetWeather", ip, "",
                               [NoOutcome EXCEPT !.reached = TRUE, !.city = city,
                                    !.data = Put(Put(cached_data, "cached", PyBool(TRUE)),
                                                 "timestamp", PyDateTime(<<"iso", now>>))])
           ELSE /\ procs' = [procs EXCEPT ![p] = begun]
                /\ ev' = [Event("cache.get", ip, "", NoOutcome) EXCEPT !.deleted = p, !.city = city]
    /\ UNCHANGED <<dbcache, now, usec, cache, rate, throttle, history, nextId, served, admits, fetched>>

\* weather_service.get_weather(city), answered by the upstream
Fetch(p, env) ==
    /\ procs[p].pc = "fetch"
    /\ LET res == service_get_weather(procs[p].city, env)
       IN  /\ res.ok
           /\ procs' = [procs EXCEPT ![p] =
                           [Working(p, "set", procs[p].did \o <<"get_weather">>)
                               EXCEPT !.data = res.data]]
    /\ ev' = RaceStep("get_weather", p)
    /\ UNCHANGED <<dbcache, now, usec, cache, rate, throttle, history, nextId, served, admits, fetched>>

\* cache_repository.cache_weather(city, weather_data, ttl_seconds=ONE_MINUTE)
Write(p) ==
    /\ procs[p].pc = "set"
    /\ LET cw == cache_weather(cache, procs[p].city, procs[p].data, ONE_MINUTE, now, FALSE)
       IN  /\ cache' = cw.cache
           /\ procs' = [procs EXCEPT ![p] =
                           [Working(p, "save", procs[p].did \o <<"cache.set">>)
                               EXCEPT !.data = cw.weather_data]]
           /\ served' = IF procs[p].stale
                        THEN Unserved(served, procs[p].city)
                        ELSE Served(served, procs[p].city, procs[p].raw,
                                    Put(cw.weather_data, "cached", PyBool(FALSE)), now)
    /\ ev' = RaceStep("cache.set", p)
    /\ UNCHANGED <<dbcache, now, usec, rate, throttle, history, nextId, admits, fetched>>

\* (a variant that goes on to the trim without inserting the row)
SaveSkipped(p) ==
    /\ procs[p].pc = "save"
    /\ procs' = [procs EXCEPT ![p] =
                    [Working(p, "trim", procs[p].did \o <<"save_query">>) EXCEPT !.row = nextId]]
    /\ ev' = RaceStep("save_query", p)
    /\ UNCHANGED <<dbcache, now, usec, cache, rate, throttle, history, nextId, served, admits, fetched>>

\* _save_to_history: query_repository.save_query
Save(p) ==
    /\ procs[p].pc = "save"
    /\ history' = save_query(history, nextId, procs[p].city, procs[p].ip, procs[p].data,
                             [s |-> now, u |-> usec])
    /\ nextId' = nextId + 1
    /\ usec' = usec + 1
    /\ fetched' = Fetched(fetched, procs[p].city, procs[p].ip, nextId)
    /\ procs' = [procs EXCEPT ![p] =
                    [Working(p, "trim", procs[p].did \o <<"save_query">>) EXCEPT !.row = nextId]]
    /\ ev' = RaceStep("save_query", p)
    /\ UNCHANGED <<dbcache, now, cache, rate, throttle, served, admits>>

\* _save_to_history: query_repository.cleanup_old_queries(limit=10), and the
\* return of execute
Trim(p) ==
    /\ procs[p].pc = "trim"
    /\ history' \in cleanup_old_queries(history, procs[p].city, procs[p].ip, HISTORY_LIMIT)
    /\ procs' = [procs EXCEPT ![p] =
                    [Working(p, "done", procs[p].did \o <<"cleanup_old_queries">>)
                        EXCEPT !.data = Put(Put(procs[p].data, "cached", PyBool(FALSE)),
                                            "timestamp", PyDateTime(<<"iso", now>>))]]
    /\ ev' = Event("GetWeather", procs[p].ip, "",
                   [NoOutcome EXCEPT !.reached = TRUE, !.city = procs[p].city,
                        !.data = Put(Put(procs[p].data, "cached", PyBool(FALSE)),
                                     "timestamp", PyDateTime(<<"iso", now>>)),
                        !.provider_called = TRUE, !.cache_written = TRUE,
                        !.history_appended = TRUE, !.history_trimmed = TRUE])
    /\ UNCHANGED <<dbcache, now, usec, cache, rate, throttle, nextId, served, admits, fetched>>

\* --- WeatherQuery.cleanup_old_queries run by worker p, one query at a time

\* what execute returns after a miss
MissReturn(p) ==
    Event("GetWeather", procs[p].ip, "",
          [NoOutcome EXCEPT !.reached = TRUE, !.city = procs[p].city,
               !.data = Put(Put(procs[p].data, "cached", PyBool(FALSE)),
                            "timestamp", PyDateTime(<<"iso", now>>)),
               !.provider_called = TRUE, !.cache_written = TRUE,
               !.history_appended = TRUE, !.history_trimmed = TRUE])

\* queries.count() > limit; when it is not, execute returns
TrimCount(p) ==
    /\ procs[p].pc = "trim"
    /\ IF Cardinality(Filter(history, procs[p].city, procs[p].ip)) > HISTORY_LIMIT
       THEN /\ procs' = [procs EXCEPT ![p].pc = "trim.select"]
            /\ ev' = RaceStep("count", p)
       ELSE /\ procs' = [procs EXCEPT ![p] =
                            Working(p, "done", procs[p].did \o <<"cleanup_old_queries">>)]
            /\ ev' = MissReturn(p)
    /\ UNCHANGED <<now, usec, cache, rate, throttle, history, dbcache, nextId, served,
                   admits, fetched>>

\* [q.id for q in queries[limit:]]
TrimSelect(p) ==
    /\ procs[p].pc = "trim.select"
    /\ \E q \in OrderByCreatedDesc(Filter(history, procs[p].city, procs[p].ip)) :
          procs' = [procs EXCEPT ![p].pc = "trim.delete",
                                 ![p].ids = {q[i].id : i \in (HISTORY_LIMIT + 1)..Len(q)}]
    /\ ev' = RaceStep("select", p)
    /\ UNCHANGED <<now, usec, cache, rate, throttle, history, dbcache, nextId, served,
                   admits, fetched>>

\* filter(id__in=[...]).delete(), and the return of execute
TrimDelete(p) ==
    /\ procs[p].pc = "trim.delete"
    /\ history' = {r \in history : r.id \notin procs[p].ids}
    /\ procs' = [procs EXCEPT ![p] =
                    Working(p, "done", procs[p].did \o <<"cleanup_old_queries">>)]
    /\ ev' = [RaceStep("delete", p) EXCEPT !.params = [ip |-> procs[p].ip]]
    /\ UNCHANGED <<now, usec, cache, rate, throttle, dbcache, nextId, served, admits, fetched>>

\* a second passes in which requests.get receives nothing; cur is the time the
\* worker has waited for the upstream
AwaitReply(p) ==
    /\ procs[p].pc = "fetch"
    /\ procs[p].cur < REQUEST_TIMEOUT
    /\ now' = now + 1
    /\ usec' = 0
    /\ cache' = Expire(cache, now + 1)
    /\ rate' = Expire(rate, now + 1)
    /\ admits' = [ip \in DOMAIN admits \cap DOMAIN Expire(rate, now + 1) |-> admits[ip]]
    /\ procs' = [procs EXCEPT ![p].cur = @ + 1]
    /\ ev' = RaceStep("requests.get", p)
    /\ UNCHANGED <<throttle, history, dbcache, nextId, served, fetched>>

\* (a variant of the failing call made without timeout=10: no answer never
\* ends it)
FetchRaisesUnbounded(p, env) ==
    /\ procs[p].pc = "fetch"
    /\ env.reply # "timeout"
    /\ LET res == service_get_weather(procs[p].city, env)
       IN  /\ ~res.ok
           /\ procs' = [procs EXCEPT ![p] = Working(p, "done", procs[p].did \o <<"get_weather">>)]
           /\ ev' = Event("GetWeather", procs[p].ip, "",
                          [NoOutcome EXCEPT !.reached = TRUE, !.city = procs[p].city,
                               !.by = res.exc, !.msg = res.msg, !.provider_called = TRUE])
    /\ UNCHANGED <<now, usec, cache, rate, throttle, history, dbcache, nextId, served,
                   admits, fetched>>

\* weather_service.get_weather(city) raises, and execute with it: at once when
\* the upstream answers with a failure, and after REQUEST_TIMEOUT seconds
\* without an answer ("timeout")
FetchRaises(p, env) ==
    /\ procs[p].pc = "fetch"
    /\ env.reply = "timeout" => procs[p].cur = REQUEST_TIMEOUT
    /\ LET res == service_get_weather(procs[p].city, env)
       IN  /\ ~res.ok
           /\ procs' = [procs EXCEPT ![p] = Working(p, "done", procs[p].did \o <<"get_weather">>)]
           /\ ev' = Event("GetWeather", procs[p].ip, "",
                          [NoOutcome EXCEPT !.reached = TRUE, !.city = procs[p].city,
                               !.by = res.exc, !.msg = res.msg, !.provider_called = TRUE])
    /\ UNCHANGED <<now, usec, cache, rate, throttle, history, dbcache, nextId, served,
                   admits, fetched>>

\* OpenWeatherMapService(api_key).get_weather(city), called directly, with
\* what the upstream answers; requests.get is reached only past the key check
ProviderCall(city, api_key, reply, temp) ==
    /\ LET res == get_weather(city, api_key, reply, temp)
       IN  ev' = [Event("get_weather", "", "",
                        [NoOutcome EXCEPT !.city = city, !.data = res.data, !.msg = res.msg,
                             !.by = res.exc, !.provider_called = api_key # ""])
                  EXCEPT !.params = [city |-> city, api_key |-> api_key,
                                     reply |-> reply, temp |-> temp]]
    /\ UNCHANGED <<dbcache, now, usec, cache, rate, throttle, history, nextId, served, admits,
                   fetched, procs>>

\* --- a weather request handled by worker p, one access to the shared cache
\* --- at a time

Step(kind, p, ip) == [Event(kind, ip, WeatherPath, NoOutcome) EXCEPT !.deleted = p]

\* RateLimitMiddleware.__call__ up to is_rate_limited: the first cache.get
Check(p, ip, maxr) ==
    /\ procs[p].pc = "idle"
    /\ IF is_rate_limited(rate, ip, now)
       THEN /\ ev' = Event("weather", ip, WeatherPath,
                           [NoOutcome EXCEPT !.status = 429, !.by = "middleware",
                                !.limit = RATE_LIMIT_REQUESTS,
                                !.retry_after = RATE_LIMIT_WINDOW])
            /\ UNCHANGED <<admits, procs>>
       ELSE /\ (ip \in DOMAIN admits => Len(admits[ip]) < maxr)
            /\ admits' = Admitted(admits, ip, now)
            /\ procs' = [procs EXCEPT ![p] = [pc |-> "record_get", ip |-> ip, cur |-> 0]]
            /\ ev' = Step("check", p, ip)
    /\ UNCHANGED <<dbcache, now, usec, cache, rate, throttle, history, nextId, served, fetched>>

\* record_request: current_count = cache.get(cache_key, 0)
RecordGet(p) ==
    /\ procs[p].pc = "record_get"
    /\ procs' = [procs EXCEPT ![p].pc = "record_set",
                              ![p].cur = RateGet(rate, procs[p].ip, now)]
    /\ ev' = Step("record_get", p, procs[p].ip)
    /\ UNCHANGED <<dbcache, now, usec, cache, rate, throttle, history, nextId, served, admits, fetched>>

\* record_request: cache.set(cache_key, current_count + 1, window_seconds)
RecordSet(p) ==
    /\ procs[p].pc = "record_set"
    /\ rate' = RateSet(rate, procs[p].ip, procs[p].cur + 1, now)
    /\ procs' = [procs EXCEPT ![p].pc = "view"]
    /\ ev' = Step("record_set", p, procs[p].ip)
    /\ UNCHANGED <<dbcache, now, usec, cache, throttle, history, nextId, served, admits, fetched>>

\* self.get_response(request)
Respond(p, city, env, maxq) ==
    /\ procs[p].pc = "view"
    /\ \E o \in Dispatch(WeatherPath, Params(city), procs[p].ip,
                         Outcome(cache, history, nextId, usec, rate, throttle), now, env) :
          /\ o.nextId <= maxq + 1
          /\ cache' = o.cache
          /\ history' = o.history
          /\ nextId' = o.nextId
          /\ usec' = o.usec
          /\ throttle' = o.throttle
          /\ served' = IF o.reached /\ o.status = 200
                       THEN Served(served, o.city, city, o.data, now)
                       ELSE served
          /\ fetched' = IF o.history_appended
                        THEN Fetched(fetched, o.city, procs[p].ip, nextId)
                        ELSE fetched
          /\ ev' = Event("weather", procs[p].ip, WeatherPath, o)
    /\ procs' = [procs EXCEPT ![p] = NoProc]
    /\ UNCHANGED <<dbcache, now, rate, admits>>

\* ---------------------------------------------------------- specifications

ClientA == "10.0.0.1"
ClientB == "10.0.0.2"

TickSteps == {30}

\* cache-aside with provider and history-store faults: one client, two
\* spellings of one city, invalidation and the passing of time
Next ==
    \/ \E in \in WeatherInputs : WeatherRequest(ClientA, in[1], in[2], MaxQueries, MaxRequests)
    \/ CacheDeleteRequest(ClientA, <<"S", "p">>, MaxQueries, MaxRequests)
    \/ \E d \in TickSteps : Tick(d, MaxTime)

Spec == Init /\ [][Next]_vars

\* the rate limiter in front of the weather endpoint, requests one at a time
NextRate ==
    \/ \E ip \in IPs : WeatherRequest(ip, SaoPaulo, Mock, MaxRateQueries, MaxRateRequests)
    \/ \E d \in TickSteps : Tick(d, MaxRateTime)

SpecRate == Init /\ [][NextRate]_vars

\* every endpoint, one client, within one hour
NextThrottle ==
    \/ WeatherRequest(ClientA, SaoPaulo, Mock, MaxThrottleQueries, MaxThrottleRequests)
    \/ HistoryRequest(ClientA, Params(SaoPaulo), MaxThrottleQueries, MaxThrottleRequests)
    \/ CacheDeleteRequest(ClientA, SaoPaulo, MaxThrottleQueries, MaxThrottleRequests)
    \/ HealthRequest(ClientA, MaxThrottleQueries, MaxThrottleRequests)
    \/ MetricsRequest(ClientA, MaxThrottleQueries, MaxThrottleRequests)

SpecThrottle == Init /\ [][NextThrottle]_vars

\* the history of one city under two clients' fetches and the minutely sweep
NextHist ==
    \/ GetWeatherCall(ClientA, SaoPaulo, Mock, MaxHistQueries)
    \/ GetWeatherCall(ClientB, SaoPaulo, Mock, MaxOtherQueries)
    \/ InvalidateCacheCall(SaoPaulo)
    \/ \E ip \in IPs : GetHistoryCall(ip, SaoPaulo, MAX_LIMIT, FALSE)
    \/ SweepTask

SpecHist == Init /\ [][NextHist]_vars

\* weather requests of one client handled by two workers at once
NextConc ==
    \/ \E p \in Procs : Check(p, ClientA, MaxConcRequests)
    \/ \E p \in Procs : RecordGet(p)
    \/ \E p \in Procs : RecordSet(p)
    \/ \E p \in Procs : Respond(p, SaoPaulo, Mock, MaxConcRequests)

SpecConc == Init /\ [][NextConc]_vars


\* ------------------------------------------------------------------ claims

\* the weather requests of Spec whose provider call fails: by the upstream's
\* reply, or by the city when the mock service answers
FaultInputs == (Spellings \X ProviderFaults) \cup (MockFailCities \X {Mock})

\* the weather request of Spec with these inputs is a miss
Misses(in) ==
    /\ ev'.kind = "weather" /\ ev'.reached /\ ev'.city = Normalize(in[1])
    /\ ~Live(cache, get_cache_key(Normalize(in[1])), now)
    /\ WeatherRequest(ClientA, in[1], in[2], MaxQueries, MaxRequests)

\* the provider's failure is the one it reports for an unknown city
NotFound(in) ==
    IF default_weather_service(in[2].api_key) = "mock"
    THEN Lower(Normalize(in[1])) = <<"n", "o", "t", "f", "o", "u", "n", "d">>
    ELSE in[2].reply = "404"

\* C1: of two weather calls for a city one after the other within the TTL,
\* with no invalidation or expiry in between, the first answers cached=false
\* and the second cached=true with the same weather fields.  served holds,
\* per cache key, the fields and time of the last cached=false answer since
\* the key was last invalidated.
C1_SecondCallWithinTtlIsHit ==
    [][(ev'.kind = "weather" /\ ev'.status = 200) =>
          LET k == get_cache_key(ev'.city)
          IN  IF k \in DOMAIN served /\ now' < served[k].at + ONE_MINUTE
              THEN ev'.cached = PyBool(TRUE) /\ ev'.weather = served[k].weather
              ELSE ev'.cached = PyBool(FALSE)]_vars

\* a second call, half a minute after the first, answered from the cache
C1_Witness ==
    /\ ev.kind = "weather"
    /\ ev.status = 200
    /\ ev.cached = PyBool(TRUE)
    /\ \E k \in DOMAIN served : served[k].at < now /\ served[k].weather = ev.weather

\* C2: a weather call that finds a live cache entry calls no provider, appends
\* and trims no history and leaves the cache as it is; and an answer has
\* cached=true exactly when no provider call was made for it.
C2_HitTouchesNothing ==
    [][(ev'.kind = "weather" /\ ev'.reached) =>
          /\ Live(cache, get_cache_key(ev'.city), now) =>
                /\ ev'.status = 200
                /\ ~ev'.provider_called
                /\ ~ev'.history_appended /\ ~ev'.history_trimmed
                /\ history' = history /\ nextId' = nextId
                /\ cache' = cache
          /\ ev'.status = 200 => ((ev'.cached = PyBool(TRUE)) <=> ~ev'.provider_called)
          /\ ev'.status # 200 => ev'.provider_called]_vars

\* a hit with a row in the history and an entry in the cache to leave alone
C2_Witness ==
    /\ ev.kind = "weather"
    /\ ev.cached = PyBool(TRUE)
    /\ ~ev.provider_called
    /\ history # {}
    /\ Live(cache, get_cache_key(ev.city), now)

\* C8: when the provider call of a miss fails, the caller gets the provider's
\* error and nothing else changes: no cache entry is written and no history
\* row is appended or trimmed.
C8_ProviderFailureLeavesNoTrace ==
    [][\A in \in FaultInputs :
          Misses(in) =>
             /\ ev'.status \in {404, 500}
             /\ ev'.msg = service_get_weather(Normalize(in[1]), in[2]).msg
             /\ ev'.provider_called
             /\ ~ev'.cache_written /\ ~ev'.history_appended /\ ~ev'.history_trimmed
             /\ cache' = cache /\ history' = history /\ nextId' = nextId]_vars

\* a failed fetch for a city that an earlier fetch had cached and logged and
\* whose entry has expired
C8_Witness ==
    /\ ev.kind = "weather"
    /\ ev.status = 500
    /\ ev.provider_called
    /\ history # {}
    /\ get_cache_key(ev.city) \in DOMAIN served
    /\ ~Live(cache, get_cache_key(ev.city), now)

\* C9: a weather request whose provider fails is answered 404 when the
\* failure is the unknown city's and 500 for every other failure; the
\* message of a service without an API key (which the view's own use case
\* never takes) maps to 500 as well.
C9_ErrorStatus ==
    [][/\ \A in \in FaultInputs :
             Misses(in) => ev'.status = IF NotFound(in) THEN 404 ELSE 500
       /\ \A city \in Spellings :
             LET res == get_weather(Normalize(city), "", "200", "25.04")
             IN  ~res.ok /\ ErrorStatus(res.msg) = 500]_vars

\* an unknown city answered 404
C9_Witness ==
    /\ ev.kind = "weather"
    /\ ev.status = 404
    /\ ev.provider_called

\* C10: when the history append or trim fails during a miss whose provider
\* call succeeded, the request still answers the fetched snapshot with
\* cached=false, and the cache entry it wrote stays.
C10_HistoryFailureNotSurfaced ==
    [][\A in \in Spellings \X HistoryFaults :
          Misses(in) =>
             LET res == service_get_weather(Normalize(in[1]), in[2])
                 key == get_cache_key(Normalize(in[1]))
             IN  /\ ev'.status = 200
                 /\ ev'.cached = PyBool(FALSE)
                 /\ ev'.weather = Weather(WeatherResponseSerializer(res.data))
                 /\ Live(cache', key, now')
                 /\ Weather(json_loads(cache'[key].doc)) = Weather(res.data)
                 /\ (in[2].hfail = "save" => history' = history)]_vars

\* a miss answered 200 although its history row was not written
C10_Witness ==
    /\ ev.kind = "weather"
    /\ ev.status = 200
    /\ ev.cached = PyBool(FALSE)
    /\ ~ev.history_appended
    /\ Live(cache, get_cache_key(ev.city), now)

\* the admissions of ip since its counter was last absent
AdmitsOf(ip) == IF ip \in DOMAIN admits THEN admits[ip] ELSE <<>>

\* this many of them fall in the window that the first one opened
InWindow(a) ==
    Cardinality({i \in 1..Len(a) : a[i] < a[Len(a)] + RATE_LIMIT_WINDOW})

\* C3: once a client has made more than 10 successful fetches for a city,
\* GetHistory with limit 50 returns exactly the 10 rows created last for
\* that client and city.
C3_HistoryKeepsLastTen ==
    [][(ev'.kind = "GetHistory"
        /\ Len(FetchedFor(fetched, ev'.city, ev'.ip)) > HISTORY_LIMIT) =>
          Ids(ev'.queries) = SubSeq(FetchedFor(fetched, ev'.city, ev'.ip), 1, HISTORY_LIMIT)]_vars

\* C4: for every client, the requests the middleware admits within one
\* window are never more than the limit, however the workers interleave.
C4_AdmissionsWithinLimit ==
    \A ip \in IPs : InWindow(AdmitsOf(ip)) <= RATE_LIMIT_REQUESTS

\* C5: with limit 5 and window 60, of the weather requests a client sends one
\* after the other within 60 seconds of the first, which found no counter,
\* the first five are admitted and every further one is rejected.
C5_SixthRequestRejected ==
    [][\A ip \in IPs :
          (/\ ev'.kind = "weather" /\ ev'.ip = ip
           /\ (AdmitsOf(ip) # <<>> =>
                  now < AdmitsOf(ip)[Len(AdmitsOf(ip))] + RATE_LIMIT_WINDOW))
          => /\ RATE_LIMIT_REQUESTS = 5 /\ RATE_LIMIT_WINDOW = 60
             /\ Len(AdmitsOf(ip)) < 5 => ev'.status # 429
             /\ Len(AdmitsOf(ip)) >= 5 => ev'.status = 429 /\ ev'.by = "middleware"]_vars

\* the sixth request, after five admitted ones
C5_Witness ==
    /\ ev.kind = "weather"
    /\ ev.status = 429
    /\ Len(AdmitsOf(ev.ip)) = 5
    /\ now < AdmitsOf(ev.ip)[5] + RATE_LIMIT_WINDOW

\* C6: a request the rate limiter rejects is answered 429 with the limit and
\* a retry-after equal to the window, and goes no further: no cache lookup or
\* write, no provider call, no history append, and the counter stays.
C6_RejectedRequestTouchesNothing ==
    [][(ev'.kind = "weather"
        /\ (ev'.by = "middleware" \/ is_rate_limited(rate, ev'.ip, now))) =>
          /\ ev'.status = 429 /\ ev'.by = "middleware"
          /\ ev'.limit = RATE_LIMIT_REQUESTS
          /\ ev'.retry_after = RATE_LIMIT_WINDOW
          /\ ~ev'.reached /\ ~ev'.provider_called
          /\ ~ev'.cache_written /\ ~ev'.history_appended
          /\ cache' = cache /\ history' = history /\ nextId' = nextId
          /\ rate' = rate /\ throttle' = throttle]_vars

\* a rejected request with a cache entry, a history row and a full counter
\* to leave alone
C6_Witness ==
    /\ ev.kind = "weather"
    /\ ev.by = "middleware"
    /\ ev.ip \in DOMAIN rate /\ rate[ev.ip].n = RATE_LIMIT_REQUESTS
    /\ cache # <<>>
    /\ history # {}

\* C7: only the weather endpoint is rate limited: requests to the history
\* endpoint, the cache endpoint, /health/ and /metrics are never answered 429
\* and never change a rate-limit counter.
C7_OnlyWeatherIsLimited ==
    [][ev'.path \in OtherPaths => ev'.status # 429 /\ rate' = rate]_vars

\* ---------------------------------------- request parameters (specification)

MaxApiQueries == 2        \* history rows ever appended
MaxApiRequests == 3       \* requests of the client that reach a view

\* one city written in several ways, and another city
ApiCities == Spellings \cup {<<" ", "s", "P">>, <<"r", "j">>}

\* city parameters the views reject or read as no city
BlankCities == {<<>>, <<" ">>, <<" ", " ">>}

\* values of the limit parameter
LimitTexts == {<<"1">>, <<"2">>, <<" ", "7", " ">>, <<"5", "0">>, <<"5", "1">>,
               <<"1", "0", "0">>, <<"0">>, <<"-", "1">>, <<"+", "2">>,
               <<"a", "b", "c">>, <<"2", ".", "5">>, <<>>}

\* query strings of the weather endpoint
WeatherParams == {<<>>} \cup {Params(city) : city \in ApiCities \cup BlankCities}

\* query strings of the history endpoint
HistoryParams ==
    {<<>>} \cup {Params(city) : city \in ApiCities \cup BlankCities}
           \cup {[city |-> SaoPaulo, limit |-> limit] : limit \in LimitTexts}

\* the three endpoints of the weather application with every form of their
\* parameters, one client, a working provider, over time
NextApi ==
    \/ \E params \in WeatherParams :
          WeatherParamsRequest(ClientA, params, Env("k", "200", "25.04", "none"),
                               MaxApiQueries, MaxApiRequests)
    \/ \E params \in HistoryParams :
          HistoryRequest(ClientA, params, MaxApiQueries, MaxApiRequests)
    \/ \E params \in WeatherParams :
          CacheDeleteParamsRequest(ClientA, params, MaxApiQueries, MaxApiRequests)
    \/ \E d \in TickSteps : Tick(d, MaxTime)

SpecApi == Init /\ [][NextApi]_vars

\* ------------------------------------------ history tables (specification)

MaxSweepQueries == 11     \* fetches of the first client
MaxSweepOther == 2        \* fetches of the second client, per city

\* the cities fetched and listed
HistCities == {SaoPaulo, <<"r", "j">>}

\* the limits GetHistory is called with
HistLimits == {1, 3, MAX_LIMIT}

\* n fetches of city by ip
Times(n, city, ip) == [i \in 1..n |-> <<city, ip>>]

\* the history tables left by the fetches in who, a sequence of <<city, ip>>,
\* each one a miss (the cache entry expired or was invalidated in between)
\* answered by the mock service
\* tie: the first two fetches read the same value of the clock
RECURSIVE Fetches(_, _, _, _)
Fetches(h, id, who, tie) ==
    IF who = <<>> THEN {h}
    ELSE UNION {Fetches(g.history, g.nextId, Tail(who), tie) :
                    g \in GetWeather(who[1][1], who[1][2], <<>>, h, id, 0,
                                     IF tie /\ id = 2 THEN 0 ELSE id - 1, Mock)}

\* the history after a fetches of the first client and b fetches of the
\* second for one city, and c fetches of the second client for another city
InitSweep ==
    \E a \in 0..MaxSweepQueries, b \in 0..MaxSweepOther, c \in 0..MaxSweepOther,
       first \in IPs, tie \in BOOLEAN :
       \E h \in Fetches({}, 1,
                        IF first = ClientA
                        THEN Times(a, SaoPaulo, ClientA) \o Times(b, <<" ", "S", "P", " ">>, ClientB)
                               \o Times(c, <<"r", "j">>, ClientB)
                        ELSE Times(b, <<" ", "S", "P", " ">>, ClientB)
                               \o Times(c, <<"r", "j">>, ClientB) \o Times(a, SaoPaulo, ClientA),
                        tie) :
          /\ history = h
          /\ nextId = a + b + c + 1
          /\ usec = a + b + c
          /\ now = 0
          /\ cache = <<>>
          /\ dbcache = {}
          /\ rate = <<>>
          /\ throttle = <<>>
          /\ served = <<>>
          /\ admits = <<>>
          /\ fetched = <<>>
          /\ procs = [p \in Procs |-> NoProc]
          /\ ev = Event("init", "", "", NoOutcome)

\* listings and the minutely sweep over the tables the fetches leave
NextSweep ==
    \/ \E ip \in IPs, city \in HistCities, limit \in HistLimits :
          GetHistoryCall(ip, city, limit, FALSE)
    \/ SweepTask

SpecSweep == InitSweep /\ [][NextSweep]_vars

\* listings with a history store that fails at times, and the minutely sweep
NextRead ==
    \/ \E ip \in IPs, city \in HistCities, limit \in HistLimits, fails \in BOOLEAN :
          GetHistoryCall(ip, city, limit, fails)
    \/ SweepTask

SpecRead == InitSweep /\ [][NextRead]_vars

\* --------------------------------------- client identity (specification)

\* the requests as they arrive: directly, or through proxies that give the
\* client's address first in X-Forwarded-For
Metas ==
    {[REMOTE_ADDR |-> a, HTTP_X_FORWARDED_FOR |-> <<>>] : a \in IPs}
       \cup {[REMOTE_ADDR |-> ClientB, HTTP_X_FORWARDED_FOR |-> <<ClientA, ClientB>>],
             [REMOTE_ADDR |-> ClientA, HTTP_X_FORWARDED_FOR |-> <<ClientB>>]}

\* the rate limiter in front of the weather endpoint, two clients
NextIdent ==
    \/ \E meta \in Metas :
          ForwardedWeatherRequest(meta, SaoPaulo, Mock, MaxRateQueries, MaxRateRequests)
    \/ \E d \in TickSteps : Tick(d, MaxRateTime)

SpecIdent == Init /\ [][NextIdent]_vars

\* ------------------------------------------------ provider (specification)

\* what the upstream may answer: 200 with a full body, without the optional
\* wind, without a country, with an empty weather list; other statuses; no
\* answer in time
Replies == {"200", "200_nowind", "200_incomplete", "200_noweather",
            "404", "401", "500", "503", "429", "204", "timeout"}

ProviderCities == Spellings \cup {<<"r", "j">>, <<"f", "a", "i", "l">>}

\* the HTTP-backed provider called with every key, city and upstream answer
NextProvider ==
    \E city \in ProviderCities, api_key \in {"", "k"}, reply \in Replies, temp \in Temps :
       ProviderCall(city, api_key, reply, temp)

SpecProvider == Init /\ [][NextProvider]_vars

\* ------------------------------------- concurrent fetches (specification)

MaxRaceQueries == 3       \* history rows ever appended

\* two workers running GetWeatherUseCase.execute for spellings of one city,
\* their calls to the cache, the provider and the history store interleaved
NextRace ==
    \/ \E p \in Procs, city \in Spellings :
          Lookup(p, IF p = 1 THEN ClientA ELSE ClientB, city, MaxRaceQueries)
    \/ \E p \in Procs, env \in Healthy : Fetch(p, env)
    \/ \E p \in Procs : Write(p)
    \/ \E p \in Procs : Save(p)
    \/ \E p \in Procs : Trim(p)
    \/ InvalidateCacheCall(SaoPaulo)

SpecRace == Init /\ [][NextRace]_vars

\* ---------------------------------------- one fetch by steps (specification)

\* one worker running GetWeatherUseCase.execute call by call for the first
\* client, over the history tables earlier fetches left
NextSteps ==
    \/ \E city \in Spellings :
          Lookup(1, ClientA, city, MaxSweepQueries + MaxSweepOther + MaxSweepOther + 1)
    \/ \E env \in Healthy : Fetch(1, env)
    \/ Write(1)
    \/ Save(1)
    \/ Trim(1)

SpecSteps == InitSweep /\ [][NextSteps]_vars

\* --------------------------------------- cache backends (specification)

MaxDbTime == 60           \* seconds of wall clock

Repos == {"redis", "database"}

\* the lifetimes entries are written with
Ttls == {30, ONE_MINUTE}

\* the cities the repositories are called with: what the use cases make of
\* two spellings of one city, the same city in another case, and another city
RepoCities == {Normalize(city) : city \in Spellings} \cup {<<"s", "P">>, <<"R", "j">>}

\* the spellings of the first city
SameKey == {city \in RepoCities : get_cache_key(city) = get_cache_key(SaoPaulo)}

\* both cache repositories under writes, reads, invalidations, the purge of
\* the database table and the passing of time; the first city is written
\* with two snapshots and, in the table, two lifetimes
NextDb ==
    \/ \E city \in SameKey, env \in Healthy :
          CacheWeatherCall("redis", city, env, ONE_MINUTE)
    \/ \E city \in SameKey, env \in Healthy, ttl \in Ttls :
          CacheWeatherCall("database", city, env, ttl)
    \/ \E city \in RepoCities \ SameKey :
          CacheWeatherCall("database", city, Env("k", "200", "25.04", "none"), 30)
    \/ \E repo \in Repos, city \in SameKey : GetCachedWeatherCall(repo, city)
    \/ \E repo \in Repos : InvalidateCall(repo, SaoPaulo)
    \/ PurgeTask
    \/ \E d \in TickSteps : Tick(d, MaxDbTime)

SpecDb == Init /\ [][NextDb]_vars

\* ------------------------------ sweep among fetches (specification)

MaxLiveAppends == 1       \* fetches of the second client during the run

\* the tables of InitSweep in which a city has reached the limit
InitLive ==
    /\ InitSweep
    /\ \E city \in {r.city : r \in history} :
          Cardinality({r \in history : r.city = city}) >= SWEEP_LIMIT

\* the passes of the minutely sweep, statement by statement, while the
\* second client fetches
NextLive ==
    \/ SweepBegin
    \/ \E city \in {r.city : r \in history} : SweepDelete(city)
    \/ SweepReturn
    \/ GetWeatherCall(ClientB, SaoPaulo, Mock, MaxLiveAppends)

\* Celery beat sends the task every minute and the worker runs each pass to
\* its end
SpecLive ==
    /\ InitLive /\ [][NextLive]_vars
    /\ WF_vars(SweepBegin)
    /\ WF_vars(\E city \in {r.city : r \in history} : SweepDelete(city))
    /\ WF_vars(SweepReturn)

\* ------------------------------- waiting for the upstream (specification)

MaxWaitTime == 30         \* seconds of wall clock
MaxWaitQueries == 2       \* history rows ever appended

NoAnswer == {env \in ProviderFaults : env.reply = "timeout"}

\* one worker running GetWeatherUseCase.execute against an upstream that
\* answers, answers with a failure, or does not answer
NextWait ==
    \/ \E city \in Spellings :
          /\ now + REQUEST_TIMEOUT <= MaxWaitTime
          /\ Lookup(1, ClientA, city, MaxWaitQueries)
    \/ AwaitReply(1)
    \/ \E env \in Healthy : Fetch(1, env)
    \/ \E env \in ProviderFaults : FetchRaises(1, env)
    \/ Write(1)
    \/ Save(1)
    \/ Trim(1)

\* the worker runs on, time passes while it waits, and the timeout of
\* requests.get fires when nothing has arrived
SpecWait ==
    /\ Init /\ [][NextWait]_vars
    /\ WF_vars(AwaitReply(1))
    /\ WF_vars(\E env \in NoAnswer : FetchRaises(1, env))
    /\ WF_vars(Write(1))
    /\ WF_vars(Save(1))
    /\ WF_vars(Trim(1))

\* ------------------------------------ concurrent trims (specification)

MaxTrimAppends == 2       \* fetches of the first client during the run

\* the tables of InitSweep in which the first client is at the limit or one
\* row below it
InitTrim ==
    /\ InitSweep
    /\ Cardinality({r \in history : r.ip = ClientA}) >= HISTORY_LIMIT - 1

\* two workers fetching for the first client, their trims one query at a
\* time, while the sweep runs statement by statement on the second worker
NextTrim ==
    \/ \E p \in Procs :
          /\ Cardinality({r \in history : r.ip = ClientA})
                + Cardinality({q \in Procs : procs[q].pc \in {"fetch", "set", "save"}})
                < HISTORY_LIMIT + MaxTrimAppends
          /\ Lookup(p, ClientA, SaoPaulo,
                    MaxSweepQueries + MaxSweepOther + MaxSweepOther + MaxTrimAppends)
    \/ \E p \in Procs : Fetch(p, Mock)
    \/ \E p \in Procs : Write(p)
    \/ \E p \in Procs : Save(p)
    \/ \E p \in Procs : TrimCount(p)
    \/ \E p \in Procs : TrimSelect(p)
    \/ \E p \in Procs : TrimDelete(p)
    \/ SweepBegin
    \/ \E city \in {r.city : r \in history} : SweepDelete(city)
    \/ SweepReturn

SpecTrim == InitTrim /\ [][NextTrim]_vars

\* ------------------------------------------- cache faults (specification)

\* a fetch that meets a failing cache read or a failing cache write
CacheFaults == {CacheFault(env, cfail) : env \in {Env("k", "200", "25.04", "none")},
                                         cfail \in {"get", "set"}}

SetFaults == {env \in CacheFaults : env.cfail = "set"}

\* cache-aside with a cache backend that fails at times: one client, two
\* spellings of one city, invalidation and the passing of time
NextFault ==
    \/ \E city \in Spellings, env \in CacheFaults \cup Healthy :
          WeatherRequest(ClientA, city, env, MaxQueries, MaxRequests)
    \/ CacheDeleteRequest(ClientA, <<"S", "p">>, MaxQueries, MaxRequests)
    \/ \E d \in TickSteps : Tick(d, MaxTime)

SpecFault == Init /\ [][NextFault]_vars

\* ------------------------------------ failing invalidation (specification)

\* an invalidation whose cache.delete raises
DeleteFaults == {CacheFault(NoEnv, "delete")}

\* fetches, invalidations with a cache backend whose delete fails at times,
\* and the passing of time
NextInval ==
    \/ \E city \in Spellings, env \in Healthy :
          WeatherRequest(ClientA, city, env, MaxQueries, MaxRequests)
    \/ \E city \in Spellings, env \in DeleteFaults \cup {NoEnv} :
          CacheDeleteFaultRequest(ClientA, city, env, MaxQueries, MaxRequests)
    \/ \E d \in TickSteps : Tick(d, MaxTime)

SpecInval == Init /\ [][NextInval]_vars

\* C11: when the cache write fails during a miss whose provider call
\* succeeded, the request does not fail: it answers the fetched snapshot with
\* cached=false and still appends the history row.
C11_CacheWriteFailureNotSurfaced ==
    [][\A in \in Spellings \X SetFaults :
          Misses(in) =>
             LET res == service_get_weather(Normalize(in[1]), in[2])
             IN  /\ ev'.status = 200
                 /\ ev'.cached = PyBool(FALSE)
                 /\ ev'.weather = Weather(WeatherResponseSerializer(res.data))
                 /\ nextId' = nextId + 1
                 /\ \E r \in history' \ history :
                       /\ r.id = nextId /\ r.city = ev'.city /\ r.ip = ev'.ip
                       /\ r.temperature = res.data.temperature
                       /\ history' \ history = {r}
                 /\ cache' = cache]_vars

\* a miss answered 200 with its row in the history and nothing in the cache
C11_Witness ==
    /\ ev.kind = "weather"
    /\ ev.status = 200
    /\ ev.cached = PyBool(FALSE)
    /\ get_cache_key(ev.city) \notin DOMAIN cache
    /\ \E r \in history : r.id = nextId - 1 /\ r.city = ev.city

\* C12: InvalidateCache is idempotent: it succeeds when the city has no entry
\* and leaves the cache as it was, invalidating again changes nothing more,
\* and the GetWeather that follows it directly is a miss that calls the
\* provider and answers cached=false.
C12_InvalidateIdempotent ==
    [][LET key == get_cache_key(Normalize(<<"S", "p">>))
       IN  /\ (/\ ev'.kind = "cache_delete" /\ ev'.by = "view"
               /\ CacheDeleteRequest(ClientA, <<"S", "p">>, MaxQueries, MaxRequests))
              => /\ ev'.status = 200
                 /\ key \notin DOMAIN cache'
                 /\ \A k \in DOMAIN cache \ {key} : k \in DOMAIN cache' /\ cache'[k] = cache[k]
                 /\ key \notin DOMAIN cache => cache' = cache
                 /\ InvalidateCache(<<"S", "p">>, cache', FALSE) = cache'
                 /\ history' = history /\ nextId' = nextId
           /\ (/\ ev.kind = "cache_delete" /\ ev.status = 200
               /\ ev'.kind = "weather" /\ ev'.reached /\ ev'.city = ev.city)
              => /\ ev'.provider_called
                 /\ ev'.status = 200 => ev'.cached = PyBool(FALSE)]_vars

\* an invalidation answered 200 at a time when the entry written by the last
\* fetch would still be live
C12_Witness ==
    /\ ev.kind = "cache_delete"
    /\ ev.status = 200
    /\ get_cache_key(ev.city) \notin DOMAIN cache
    /\ \E r \in history : r.city = ev.city /\ now < r.created_at.s + ONE_MINUTE

\* two city names that differ only in letter case or in leading and trailing
\* whitespace
SameCity(a, b) == Lower(Strip(a)) = Lower(Strip(b))

\* the city parameter of the request just handled
Sent(e) == IF "city" \in DOMAIN e.params THEN e.params.city ELSE <<>>

\* C13: city names that differ only in case or surrounding whitespace share
\* one cache key and one history key: a snapshot cached under one spelling is
\* a hit for, and is invalidated by, every other spelling, and history written
\* under one spelling is listed under every other.
C13_SpellingsShareKeys ==
    [][/\ (ev'.kind = "weather" /\ ev'.reached /\ ev'.status = 200)
          => /\ \A k \in DOMAIN served :
                   (SameCity(served[k].raw, Sent(ev')) /\ now < served[k].at + ONE_MINUTE)
                   => /\ ev'.cached = PyBool(TRUE)
                      /\ ev'.weather = served[k].weather
             /\ \A r \in history' \ history : SameCity(r.city, Sent(ev'))
             /\ \A b \in ApiCities :
                   SameCity(b, Sent(ev')) =>
                      /\ ev'.city = Normalize(b)
                      /\ Live(cache', get_cache_key(Normalize(b)), now)
       /\ (ev'.kind = "cache_delete" /\ ev'.status = 200)
          => \A b \in ApiCities :
                SameCity(b, Sent(ev')) => get_cache_key(Normalize(b)) \notin DOMAIN cache'
       /\ (/\ ev.kind = "cache_delete" /\ ev.status = 200
           /\ ev'.kind = "weather" /\ ev'.reached /\ ev'.status = 200
           /\ SameCity(Sent(ev), Sent(ev')))
          => ev'.cached = PyBool(FALSE)
       /\ (ev'.kind = "history" /\ ev'.status = 200 /\ "limit" \notin DOMAIN ev'.params)
          => /\ Range(Ids(ev'.queries))
                  = {r.id : r \in {x \in history : SameCity(x.city, Sent(ev')) /\ x.ip = ev'.ip}}
             /\ \A b \in ApiCities : SameCity(b, Sent(ev')) => ev'.city = Normalize(b)]_vars

\* a hit for a snapshot that was fetched under another spelling, with the
\* history row of that fetch
C13_Witness ==
    /\ ev.kind = "weather"
    /\ ev.cached = PyBool(TRUE)
    /\ \E k \in DOMAIN served :
          /\ served[k].raw # Sent(ev)
          /\ SameCity(served[k].raw, Sent(ev))
    /\ \E r \in history : SameCity(r.city, Sent(ev))

\* C14: GetHistory is read-only: the cache and the history rows are as they
\* were, no provider call is made and nothing is written.
C14_HistoryIsReadOnly ==
    [][ev'.kind = "history" =>
          /\ cache' = cache
          /\ history' = history
          /\ nextId' = nextId
          /\ served' = served
          /\ fetched' = fetched
          /\ ~ev'.provider_called
          /\ ~ev'.cache_written
          /\ ~ev'.history_appended
          /\ ~ev'.history_trimmed]_vars

\* a listing that returned rows while the city had a live cache entry
C14_Witness ==
    /\ ev.kind = "history"
    /\ ev.status = 200
    /\ ev.total >= 1
    /\ Live(cache, get_cache_key(ev.city), now)

\* whether a limit parameter is written as an integer
IsInteger(text) ==
    text \in {<<"1">>, <<"2">>, <<" ", "7", " ">>, <<"5", "0">>, <<"5", "1">>,
              <<"1", "0", "0">>, <<"0">>, <<"-", "1">>, <<"+", "2">>}

\* the integer a limit parameter denotes
Denotes(text) ==
    CASE text = <<"1">> -> 1
      [] text = <<"2">> -> 2
      [] text = <<" ", "7", " ">> -> 7
      [] text = <<"5", "0">> -> 50
      [] text = <<"5", "1">> -> 51
      [] text = <<"1", "0", "0">> -> 100
      [] text = <<"0">> -> 0
      [] text = <<"-", "1">> -> 0 - 1
      [] text = <<"+", "2">> -> 2

\* the history request just handled asked for an integer limit
AsksLimit(e) == "limit" \in DOMAIN e.params /\ IsInteger(e.params.limit)

Clamp(n) == IF n < 1 THEN 1 ELSE IF n > MAX_LIMIT THEN MAX_LIMIT ELSE n

\* C15 (as stated): the history endpoint clamps the limit to 1..50 (above 50
\* gives 50, below 1 gives 1) and uses 10 when it is missing or not an integer.
C15_LimitClamped ==
    [][(ev'.kind = "history" /\ ev'.status = 200) =>
          ev'.limit = IF ~AsksLimit(ev') THEN DEFAULT_LIMIT
                      ELSE Clamp(Denotes(ev'.params.limit))]_vars

\* C15 (amended): the history endpoint uses the requested limit when it is an
\* integer within 1..50 and 10 in every other case (missing, not an integer,
\* below 1, above 50); the limit passed to the history store is within 1..50
\* and no more rows than that are returned.
C15_LimitOrDefault ==
    [][(ev'.kind = "history" /\ ev'.status = 200) =>
          /\ ev'.limit = IF ~AsksLimit(ev') THEN DEFAULT_LIMIT
                         ELSE IF \/ Denotes(ev'.params.limit) < 1
                                 \/ Denotes(ev'.params.limit) > MAX_LIMIT
                         THEN DEFAULT_LIMIT
                         ELSE Denotes(ev'.params.limit)
          /\ ev'.limit \in 1..MAX_LIMIT
          /\ Len(ev'.queries) <= ev'.limit]_vars

\* a listing asked with limit=51 and one asked with limit=0 are both served
\* with limit 10
C15_Witness ==
    /\ ev.kind = "history"
    /\ ev.status = 200
    /\ AsksLimit(ev)
    /\ Denotes(ev.params.limit) \in {0, 51}
    /\ ev.limit = DEFAULT_LIMIT

\* C16: GetHistory returns only rows of the given city and client, newest
\* first, no more than limit of them (the newest ones), and its total is the
\* number of rows returned.
C16_HistoryListing ==
    [][ev'.kind = "GetHistory" =>
          LET q == ev'.queries
              own == {r \in history : r.city = ev'.city /\ r.ip = ev'.ip}
          IN  /\ \E city \in HistCities : ev'.city = Normalize(city)
              /\ Range(q) \subseteq own
              /\ \A i, j \in 1..Len(q) :
                    i < j => /\ q[i] # q[j]
                             /\ ~Newer(q[j].created_at, q[i].created_at)
              /\ Len(q) <= ev'.limit
              /\ Len(q) = IF Cardinality(own) < ev'.limit THEN Cardinality(own) ELSE ev'.limit
              /\ \A r \in own \ Range(q) : \A i \in 1..Len(q) :
                    ~Newer(r.created_at, q[i].created_at)
              /\ ev'.total = Len(q)]_vars

\* a listing cut to its limit while the table holds rows of the same city for
\* another client and rows of another city
C16_Witness ==
    /\ ev.kind = "GetHistory"
    /\ ev.limit = 3
    /\ ev.total = 3
    /\ Cardinality({r \in history : r.city = ev.city /\ r.ip = ev.ip}) > 3
    /\ \E r \in history : r.city = ev.city /\ r.ip # ev.ip
    /\ \E r \in history : r.city # ev.city

\* the rows of a city
RowsOf(h, city) == {r \in h : r.city = city}

\* C17: one pass of the sweep leaves every city at most 10 rows over all
\* clients, the rows kept are the 10 created last, and a city that had 10 rows
\* or fewer keeps all of them.
C17_SweepKeepsLastTenPerCity ==
    [][ev'.kind = "sweep" =>
          /\ history' \subseteq history
          /\ \A city \in {r.city : r \in history} :
                /\ Cardinality(RowsOf(history', city)) <= 10
                /\ Cardinality(RowsOf(history, city)) <= 10
                      => RowsOf(history', city) = RowsOf(history, city)
                /\ Cardinality(RowsOf(history, city)) > 10
                      => Cardinality(RowsOf(history', city)) = 10
                /\ \A kept \in RowsOf(history', city) :
                      \A gone \in RowsOf(history, city) \ history' :
                         ~Newer(gone.created_at, kept.created_at)]_vars

\* after a sweep that deleted rows: a city with 10 rows of two clients and
\* another city with its rows
C17_Witness ==
    /\ ev.kind = "sweep"
    /\ ev.deleted >= 1
    /\ \E city \in {r.city : r \in history} :
          /\ Cardinality(RowsOf(history, city)) = 10
          /\ {r.ip : r \in RowsOf(history, city)} = IPs
    /\ \E city \in {r.city : r \in history} : Cardinality(RowsOf(history, city)) < 10

\* the sum over the cities of the rows beyond 10
RECURSIVE Excess(_, _)
Excess(h, cities) ==
    IF cities = {} THEN 0
    ELSE LET city == CHOOSE c \in cities : TRUE
             n == Cardinality(RowsOf(h, city))
         IN  (IF n > 10 THEN n - 10 ELSE 0) + Excess(h, cities \ {city})

\* C18: the count a sweep reports is the number of rows it removed, which is
\* the sum over the cities of max(0, rows of the city - 10), and 0 for an
\* empty table.
C18_SweepReportsDeleted ==
    [][ev'.kind = "sweep" =>
          /\ ev'.deleted = Cardinality(history \ history')
          /\ ev'.deleted = Cardinality(history) - Cardinality(history')
          /\ ev'.deleted = Excess(history, {r.city : r \in history})
          /\ history = {} => ev'.deleted = 0]_vars

\* a sweep that reported two deleted rows
C18_Witness ==
    /\ ev.kind = "sweep"
    /\ ev.deleted = 2
    /\ Cardinality(history) > 10

\* C19: a cached snapshot is served from the moment it is written until
\* ONE_MINUTE has passed and never after; a hit leaves the entry and its
\* expiry as they are, so an answer with cached=true carries data fetched
\* less than ONE_MINUTE ago.
C19_SnapshotVisibleForTtl ==
    [][(ev'.kind = "weather" /\ ev'.reached /\ ev'.status = 200) =>
          LET key == get_cache_key(ev'.city)
          IN  /\ ev'.cached = PyBool(TRUE) =>
                    /\ key \in DOMAIN served
                    /\ now - served[key].at < ONE_MINUTE
                    /\ ev'.weather = served[key].weather
                    /\ cache' = cache
                    /\ cache[key].exp = served[key].at + ONE_MINUTE
              /\ (key \in DOMAIN served /\ now - served[key].at >= ONE_MINUTE) =>
                    /\ ev'.cached = PyBool(FALSE)
                    /\ ev'.provider_called
              /\ (ev.kind = "weather" /\ ev.status = 200 /\ ev.city = ev'.city
                  /\ ev.cached = PyBool(FALSE)) => ev'.cached = PyBool(TRUE)
              /\ ev'.cached = PyBool(FALSE) =>
                    /\ cache'[key].exp = now + ONE_MINUTE
                    /\ Live(cache', key, now)]_vars

\* a miss at the moment the entry written by the first fetch reached its TTL
C19_Witness ==
    /\ ev.kind = "weather"
    /\ ev.status = 200
    /\ ev.cached = PyBool(FALSE)
    /\ now = ONE_MINUTE
    /\ \E r \in history : r.city = ev.city /\ r.created_at.s = 0
    /\ Cardinality({r \in history : r.city = ev.city}) = 2

\* C20: a weather request whose city parameter is missing, empty or only
\* whitespace, once admitted by the rate limiter and the throttle, is answered
\* 400 and never reaches the use case: the cache and the history are as they
\* were and no provider call is made.
C20_BlankCityRejected ==
    [][(/\ ev'.kind = "weather" /\ ev'.by = "view"
        /\ ("city" \notin DOMAIN ev'.params \/ Sent(ev') \in BlankCities)) =>
          /\ ev'.status = 400
          /\ ~ev'.reached
          /\ ~ev'.provider_called
          /\ ~ev'.cache_written
          /\ ~ev'.history_appended
          /\ cache' = cache
          /\ history' = history
          /\ nextId' = nextId
          /\ served' = served]_vars

\* a weather request with a city of two spaces answered 400 while the cache
\* holds a snapshot
C20_Witness ==
    /\ ev.kind = "weather"
    /\ ev.status = 400
    /\ "city" \in DOMAIN ev.params
    /\ ev.params.city = <<" ", " ">>
    /\ cache # <<>>

\* the result of the provider call just made, by the wording of what it raised
ProviderResult(e) ==
    CASE e.by = "" -> "Snapshot"
      [] e.by = "WeatherServiceException" /\ e.msg[1] = "Erro ao processar dados da API:"
            -> "ParseError"
      [] e.by = "WeatherServiceException" /\ e.msg[1] = "Cidade" -> "NotFound"
      [] e.by = "WeatherServiceException" /\ e.msg[1] = "Chave da API invalida"
            -> "Unauthorized"
      [] e.by = "WeatherServiceException" /\ e.msg[1] = "Erro na API:" -> "UpstreamError"
      [] e.by = "WeatherServiceException" /\ e.msg[1] = "Erro de conexao:"
            -> "ConnectionError"
      [] e.by = "WeatherServiceException"
           /\ e.msg[1] = "OpenWeatherMap API key not configured" -> "NotConfigured"
      [] OTHER -> "other exception"

\* C21: the HTTP-backed provider maps every upstream outcome to one result:
\* 200 with all required fields a snapshot, 200 with a required field missing
\* ParseError, 404 NotFound, 401 Unauthorized, any other status UpstreamError,
\* no answer ConnectionError, and no API key NotConfigured without a call.
C21_EveryOutcomeMapped ==
    [][ev'.kind = "get_weather" =>
          LET p == ev'.params
          IN  /\ p.api_key = "" => ProviderResult(ev') = "NotConfigured" /\ ~ev'.provider_called
              /\ p.api_key # "" =>
                    /\ ev'.provider_called
                    /\ ProviderResult(ev') =
                          CASE p.reply \in {"200", "200_nowind"} -> "Snapshot"
                            [] p.reply \in {"200_incomplete", "200_noweather"} -> "ParseError"
                            [] p.reply = "404" -> "NotFound"
                            [] p.reply = "401" -> "Unauthorized"
                            [] p.reply = "timeout" -> "ConnectionError"
                            [] OTHER -> "UpstreamError"]_vars

\* the rows of (city, client) a worker is fetching for
OwnRows(h, p) == Filter(h, procs[p].city, procs[p].ip)

\* C22: a miss whose provider call succeeds makes, in this order, one cache
\* write for the normalized city with ONE_MINUTE, one history append for
\* (city, client) and one trim of that key to 10, and answers cached=false.
C22_MissWritesAppendsTrims ==
    [][/\ (procs[1].pc = "set" /\ procs'[1].pc = "save") =>
             /\ procs[1].did = <<"cache.get", "get_weather">>
             /\ DOMAIN cache' = DOMAIN cache \cup {get_cache_key(procs[1].city)}
             /\ cache'[get_cache_key(procs[1].city)].exp = now + ONE_MINUTE
             /\ Weather(json_loads(cache'[get_cache_key(procs[1].city)].doc))
                   = Weather(procs[1].data)
             /\ history' = history
       /\ (procs[1].pc = "save" /\ procs'[1].pc = "trim") =>
             /\ procs[1].did = <<"cache.get", "get_weather", "cache.set">>
             /\ cache' = cache
             /\ history \subseteq history'
             /\ \E r \in history' :
                   /\ history' \ history = {r}
                   /\ r.city = procs[1].city /\ r.ip = procs[1].ip
                   /\ r.id = procs'[1].row
       /\ (procs[1].pc = "trim" /\ procs'[1].pc = "done") =>
             /\ procs'[1].did = <<"cache.get", "get_weather", "cache.set", "save_query",
                                  "cleanup_old_queries">>
             /\ cache' = cache
             /\ history' \subseteq history
             /\ history \ history' \subseteq OwnRows(history, 1)
             /\ Cardinality(OwnRows(history', 1)) <= 10
             /\ Cardinality(OwnRows(history, 1)) <= 10 => history' = history
             /\ \E r \in history' : r.id = procs[1].row
             /\ \A kept \in OwnRows(history', 1) : \A gone \in history \ history' :
                   ~Newer(gone.created_at, kept.created_at)
             /\ ev'.cached = PyBool(FALSE)
             /\ ev'.weather = Weather(procs[1].data)]_vars

\* a finished miss, the second one whose trim removed the client's oldest row
C22_Witness ==
    /\ procs[1].pc = "done"
    /\ Len(procs[1].did) = 5
    /\ \E r \in history : r.id = procs[1].row
    /\ Cardinality(OwnRows(history, 1)) = 10
    /\ procs[1].row = nextId - 1
    /\ nextId - 1 - Cardinality(history) = 2
    /\ Live(cache, get_cache_key(procs[1].city), now)
    /\ \E r \in history : r.ip # procs[1].ip

\* C23: after a cleanup for a key (the trim of a (city, client) key in a fetch,
\* or the sweep of a city) at most 10 rows remain for the key, they are the 10
\* created last, and of rows with the same creation time at the cut the ones
\* with the higher id are kept.
C23_TiesKeepHigherId ==
    [][ev'.kind = "sweep" =>
          \A city \in {r.city : r \in history} :
             /\ Cardinality(RowsOf(history', city)) <= 10
             /\ \A kept \in RowsOf(history', city) :
                   \A gone \in RowsOf(history, city) \ history' :
                      /\ ~Newer(gone.created_at, kept.created_at)
                      /\ gone.created_at = kept.created_at => kept.id > gone.id]_vars

\* C24: the window of a client is anchored at the first admitted request that
\* started it: the counter is absent from window_seconds after that request
\* on, however many requests were admitted in between.
C24_WindowAnchoredAtFirst ==
    \A ip \in IPs :
       AdmitsOf(ip) # <<>> =>
          (now >= AdmitsOf(ip)[Len(AdmitsOf(ip))] + RATE_LIMIT_WINDOW
              => RateGet(rate, ip, now) = 0)

GetFaults == {env \in CacheFaults : env.cfail = "get"}

\* C25: a GetWeather whose cache read fails is handled as a miss, whatever
\* the cache holds: the provider is called and, as it succeeds, the request
\* answers the fetched snapshot with cached=false.
C25_ReadFailureIsMiss ==
    [][\A in \in Spellings \X GetFaults :
          (/\ ev'.kind = "weather" /\ ev'.reached /\ ev'.city = Normalize(in[1])
           /\ WeatherRequest(ClientA, in[1], in[2], MaxQueries, MaxRequests)) =>
             LET res == service_get_weather(Normalize(in[1]), in[2])
             IN  /\ ev'.provider_called
                 /\ ev'.status = 200
                 /\ ev'.cached = PyBool(FALSE)
                 /\ ev'.weather = Weather(WeatherResponseSerializer(res.data))]_vars

\* two requests in all, both at the same instant for one city and both
\* answered by the provider: the second one could not read the live entry
C25_Witness ==
    /\ ev.kind = "weather" /\ ev.status = 200
    /\ ev.cached = PyBool(FALSE) /\ ev.provider_called
    /\ now = 0
    /\ nextId = 3
    /\ \A k \in DOMAIN throttle : Len(throttle[k]) = 2
    /\ \A r \in history : r.city = ev.city
    /\ Live(cache, get_cache_key(ev.city), now)

\* the calls of an execute that missed, in their order
MissCalls == <<"cache.get", "get_weather", "cache.set", "save_query", "cleanup_old_queries">>

\* worker p has returned from an execute that missed
Missed(pr, p) == pr[p].pc = "done" /\ pr[p].did = MissCalls

\* C26: when workers run GetWeather for one uncached city at the same time,
\* each of them calls the provider, returns cached=false and appends its own
\* history row; every cache write replaces the entry of the city by the
\* writer's snapshot, so that once they have all returned the cache holds one
\* entry for the city, the snapshot of the worker that wrote last.
C26_ConcurrentMissesLastWriteWins ==
    [][/\ \A p \in Procs :
             (procs[p].pc = "trim" /\ procs'[p].pc = "done") =>
                /\ procs'[p].did = MissCalls
                /\ ev'.cached = PyBool(FALSE)
                /\ ev'.weather = Weather(procs[p].data)
                /\ \E r \in history' :
                      /\ r.id = procs[p].row /\ r.ip = procs[p].ip /\ r.city = procs[p].city
                      /\ r.temperature = procs[p].data.temperature
       /\ \A p \in Procs :
             (procs[p].pc = "set" /\ procs'[p].pc = "save") =>
                LET key == get_cache_key(procs[p].city)
                IN  /\ DOMAIN cache' = DOMAIN cache \cup {key}
                    /\ Weather(json_loads(cache'[key].doc)) = Weather(procs[p].data)
       /\ (\A p \in Procs : Missed(procs', p)) =>
             /\ procs'[1].row # procs'[2].row
             /\ Cardinality(DOMAIN cache') <= 1
             /\ \A key \in DOMAIN served' :
                   /\ DOMAIN cache' = {key}
                   /\ Weather(json_loads(cache'[key].doc)) = served'[key].weather]_vars

\* both workers have returned from a miss with different snapshots; the
\* first one appended its row first and wrote the cache last, and the cache
\* holds its snapshot
C26_Witness ==
    /\ \A p \in Procs : Missed(procs, p)
    /\ procs[1].row = 1 /\ procs[2].row = 2
    /\ Weather(procs[1].data) # Weather(procs[2].data)
    /\ \E key \in DOMAIN served :
          /\ served[key].weather = Weather(procs[1].data)
          /\ Live(cache, key, now)
          /\ Weather(json_loads(cache[key].doc)) = Weather(procs[1].data)

\* C27: each cache backend holds at most one entry per normalized city key
\* in every state (its keys are lowercased names), and a write replaces the
\* entry of its key with what it writes (the last write wins), leaving the
\* other keys alone, and the read
\* of the key that follows answers what was written: in the keyed cache and
\* in the database table.
C27_OneEntryPerKey ==
    [][/\ \A key \in DOMAIN cache' : key = get_cache_key(key)
       /\ \A r \in dbcache' : r.city = get_cache_key(r.city) /\ OfCity(dbcache', r.city) = {r}
       /\ ev'.kind = "cache_weather" =>
             LET key == get_cache_key(ev'.city)
             IN  IF ev'.by = "redis"
                 THEN /\ key \in DOMAIN cache'
                      /\ cache'[key].exp = now + ev'.params.ttl
                      /\ \A k \in DOMAIN cache \ {key} : k \in DOMAIN cache' /\ cache'[k] = cache[k]
                 ELSE /\ \E r \in dbcache' :
                            /\ r.city = key
                            /\ Weather(json_loads(r.doc)) = ev'.weather
                            /\ r.expires_at = now + ev'.params.ttl
                      /\ dbcache' \ OfCity(dbcache', key) = dbcache \ OfCity(dbcache, key)
       /\ (/\ ev.kind = "cache_weather" /\ ev'.kind = "get_cached_weather"
           /\ ev'.by = ev.by /\ get_cache_key(ev'.city) = get_cache_key(ev.city)) =>
             ev'.weather = ev.weather]_vars

\* a write to the database table that replaced the row of its city: the
\* row was there before the second row of the table and carries this write
C27_Witness ==
    /\ ev.kind = "cache_weather" /\ ev.by = "database"
    /\ now = 30
    /\ \E r, o \in dbcache :
          /\ r.id = 1 /\ r.city = get_cache_key(ev.city) /\ r.created_at = now
          /\ o.id = 2 /\ o.created_at = 0
    /\ get_cache_key(ev.city) \in DOMAIN cache

\* C30: the purge of the database cache removes the rows whose expires_at is
\* before the time of the purge and no other row, so no live one; a purge
\* directly after a purge, with no time passed, removes nothing.
C30_PurgeRemovesExpiredOnly ==
    [][ev'.kind = "cleanup_expired_cache_entries" =>
          /\ dbcache' \subseteq dbcache
          /\ \A r \in dbcache : r \in dbcache' <=> ~(r.expires_at < now)
          /\ \A r \in dbcache : ~is_expired(r, now) => r \in dbcache'
          /\ ev.kind = "cleanup_expired_cache_entries" =>
                dbcache' = dbcache /\ ev'.deleted = 0]_vars

\* a purge that removed a row and left a row that expires at this instant
C30_Witness ==
    /\ ev.kind = "cleanup_expired_cache_entries"
    /\ ev.deleted >= 1
    /\ \E r \in dbcache : r.expires_at = now

\* C28: a sweep that runs directly after a sweep, with no append in between,
\* deletes nothing and reports 0 deleted rows.
C28_SweepIdempotent ==
    [][(ev.kind = "sweep" /\ ev'.kind = "sweep") =>
          /\ history' = history
          /\ ev'.deleted = 0]_vars

\* a sweep that found nothing to delete in a table that a sweep had cut
\* before: two or more rows are gone, and the trims of the fetches can have
\* removed one at most
C28_Witness ==
    /\ ev.kind = "sweep"
    /\ ev.deleted = 0
    /\ nextId - 1 - Cardinality(history) >= 2
    /\ \E city \in {r.city : r \in history} : Cardinality(RowsOf(history, city)) = SWEEP_LIMIT

\* C29: with fetches appending rows while the sweep runs, every pass of the
\* sweep comes to its end, and once the appends have stopped every city ends
\* up with 10 rows at most and stays so: a count above 10 left by an append
\* behind the pass is cut by a later pass.
C29_SweepCatchesUp ==
    /\ [](procs[Sweeper].pc = "sweep" => <>(procs[Sweeper].pc = "idle"))
    /\ <>[](\A city \in {r.city : r \in history} :
               Cardinality(RowsOf(history, city)) <= SWEEP_LIMIT)

\* a pass is at work, it is done with a city, and an append has since given
\* that city an eleventh row
C29_Witness ==
    /\ procs[Sweeper].pc = "sweep"
    /\ ev.kind = "GetWeather" /\ ev.history_appended
    /\ ev.city \notin procs[Sweeper].cities
    /\ Cardinality(RowsOf(history, ev.city)) = SWEEP_LIMIT + 1

\* C31: every GetWeather that was started comes to its end, with a snapshot
\* or with an error: a provider call waits REQUEST_TIMEOUT seconds at most,
\* and one that got no answer ends with the connection error.
C31_RequestCompletes ==
    /\ [](procs[1].pc \in {"fetch", "set", "save", "trim"} =>
             /\ procs[1].cur <= REQUEST_TIMEOUT
             /\ <>(procs[1].pc = "done" /\ ev.kind = "GetWeather"
                   /\ (ev.cached # PyNone \/ ev.by = "WeatherServiceException")))
    /\ [][\A env \in NoAnswer :
             FetchRaises(1, env) =>
                /\ procs[1].cur = REQUEST_TIMEOUT
                /\ ev'.msg = <<"Erro de conexao:", "RequestException">>]_vars

\* a request that ended with the connection error after ten seconds without
\* an answer
C31_Witness ==
    /\ procs[1].pc = "done"
    /\ procs[1].cur = REQUEST_TIMEOUT
    /\ ev.kind = "GetWeather"
    /\ ev.msg = <<"Erro de conexao:", "RequestException">>

\* C32: a rejected request leaves the counter of its client as it is, value
\* and expiry, so a client that has reached the limit is admitted again once
\* window_seconds have passed since its last admitted request, whatever it
\* sent and had rejected in between.
C32_RejectionLeavesWindow ==
    [][ev'.kind = "weather" =>
          /\ ev'.by = "middleware" => rate' = rate
          /\ (AdmitsOf(ev'.ip) = <<>>
              \/ now >= AdmitsOf(ev'.ip)[1] + RATE_LIMIT_WINDOW) =>
                /\ ev'.status # 429
                /\ rate'[ev'.ip] = [n |-> 1, exp |-> now + RATE_LIMIT_WINDOW]]_vars

\* a client admitted again, a window after the five requests that had
\* exhausted its limit
C32_Witness ==
    /\ ev.kind = "weather" /\ ev.status = 200
    /\ now = RATE_LIMIT_WINDOW
    /\ Len(throttle[ev.ip]) = RATE_LIMIT_REQUESTS + 1
    /\ \A i \in 2..(RATE_LIMIT_REQUESTS + 1) : throttle[ev.ip][i] = 0
    /\ rate[ev.ip] = [n |-> 1, exp |-> now + RATE_LIMIT_WINDOW]

\* C33: after InvalidateCache(city) has returned, no GetWeather is answered
\* from the cache with a snapshot that was fetched before the invalidation,
\* a fetch in flight during the invalidation included.  served holds, per
\* key, the last snapshot written whose fetch no invalidation has followed.
C33_NoStaleHitAfterInvalidate ==
    [][(ev'.kind = "GetWeather" /\ ev'.cached = PyBool(TRUE)) =>
          LET key == get_cache_key(ev'.city)
          IN  /\ key \in DOMAIN served
              /\ served[key].weather = ev'.weather]_vars

\* the rows of h that the deletion of gone leaves among the rows of its key
\* and that are not older than gone
NotOlder(h, key, gone) == {k \in key : k \in h /\ ~Newer(gone.created_at, k.created_at)}

\* C34: no trim deletes a row that is among the 10 created last for its key
\* at the moment of the deletion: after the trim of a (city, client) key and
\* after the sweep's DELETE for a city, 10 rows or more of the key that are
\* not older than a deleted row remain, however appends, trims and the sweep
\* interleave.
C34_TrimSparesLastTen ==
    [][/\ ev'.kind = "delete" =>
             \A gone \in history \ history' :
                Cardinality(NotOlder(history', Filter(history, gone.city, ev'.params.ip), gone))
                   >= HISTORY_LIMIT
       /\ ev'.kind = "sweep.delete" =>
             \A gone \in history \ history' :
                Cardinality(NotOlder(history', RowsOf(history, gone.city), gone))
                   >= SWEEP_LIMIT]_vars

\* C35: the minutely sweep never shrinks the history of a (city, client) pair
\* that holds 10 rows or fewer: the rows of such a pair, and so what
\* GetHistory lists for the client and the city, are the same after a sweep
\* as before it, whatever other clients fetched for the city.
C35_SweepSparesSmallPairs ==
    [][ev'.kind = "sweep" =>
          \A city \in {r.city : r \in history}, ip \in IPs :
             Cardinality(Filter(history, city, ip)) <= HISTORY_LIMIT =>
                /\ Filter(history', city, ip) = Filter(history, city, ip)
                /\ get_history(history', city, ip, MAX_LIMIT, FALSE)
                      = get_history(history, city, ip, MAX_LIMIT, FALSE)]_vars

\* C36: when InvalidateCache(city) reports success, the cache holds no entry
\* for the city at its return, also when the backend's delete fails: after a
\* DELETE /api/v1/weather/cache/ answered 200, with no other request in
\* between, the key of the city is not in the cache.
C36_SuccessMeansNoEntry ==
    [][(ev'.kind = "cache_delete" /\ ev'.status = 200) =>
          ~Live(cache', get_cache_key(ev'.city), now')]_vars

\* C37: a failure of the history store while GetHistory reads it is not
\* reported as an error: the call returns the normalised city with an empty
\* list, total 0 and the limit asked for, and the table is as it was.
C37_ReadFailureListsNothing ==
    [][(ev'.kind = "GetHistory" /\ ev'.params.fails) =>
          /\ ev'.queries = <<>>
          /\ ev'.total = 0
          /\ ev'.city = Title(Strip(ev'.params.city))
          /\ ev'.limit \in HistLimits
          /\ ev'.msg = NoOutcome.msg
          /\ history' = history]_vars

\* a listing that failed for a client and a city with rows in the table
C37_Witness ==
    /\ ev.kind = "GetHistory"
    /\ ev.params.fails
    /\ ev.total = 0
    /\ Filter(history, ev.city, ev.ip) # {}

\* what the counter of a client holds at time t, from the client's own
\* admitted requests alone (a lists their times since the counter was last
\* absent, the latest first)
OwnCount(a, t) == IF a = <<>> \/ t >= a[1] + RATE_LIMIT_WINDOW THEN 0 ELSE Len(a)

\* C38: rate-limit decisions are isolated per client identity: a weather
\* request is rejected exactly when the client's own admitted requests and
\* the time passed since put its counter at the limit, and it changes
\* neither the counter nor the admissions of any other client.
C38_DecisionsIsolated ==
    [][ev'.kind = "weather" =>
          /\ (ev'.by = "middleware") = (OwnCount(AdmitsOf(ev'.ip), now) >= RATE_LIMIT_REQUESTS)
          /\ (ev'.status = 429) = (ev'.by = "middleware")
          /\ \A other \in IPs \ {ev'.ip} :
                /\ other \in DOMAIN rate' <=> other \in DOMAIN rate
                /\ other \in DOMAIN rate => rate'[other] = rate[other]
                /\ other \in DOMAIN admits' <=> other \in DOMAIN admits
                /\ other \in DOMAIN admits => admits'[other] = admits[other]]_vars

\* a client's first request admitted while the other client is at its limit
C38_Witness ==
    /\ ev.kind = "weather" /\ ev.status = 200
    /\ OwnCount(AdmitsOf(ev.ip), now) = 1
    /\ \E other \in IPs \ {ev.ip} : RateGet(rate, other, now) = RATE_LIMIT_REQUESTS

====
